---- MODULE Spec2Model ----
(***************************************************************************)
(* Verification model of the design-token extraction service:              *)
(*   - the POST /api/extract request handler,                              *)
(*   - extractBranding (navigation retry loop, passive analyzer batch,     *)
(*     hover/focus probing, dark-mode and mobile passes, report),          *)
(*   - extractColors (scoring, threshold, structural filter, dedup),       *)
(*   - the palette merges of extractBranding,                              *)
(*   - scanTechStack (rule store handling).                                *)
(* Four specifications share the module: Spec (request handler and         *)
(* extractBranding control flow), SpecColors, SpecPalette and SpecTech.    *)
(***************************************************************************)
EXTENDS Integers, Sequences, FiniteSets, TLC

(***************************************************************************)
(* Bounds of the model                                                     *)
(***************************************************************************)
\* largest number of interactive elements the probed page offers
MaxInteractive == 2
\* largest number of elements of a page handed to extractColors
MaxElements == 3
\* largest number of hover/focus colours handed to the palette merge
MaxHoverColors == 2
\* largest number of rule files in one category directory
MaxFiles == 2
MaxTotal == 600

(***************************************************************************)
(* Program constants                                                       *)
(***************************************************************************)
maxAttempts == 2
MinContentLength == 100
SampleLimit == 20
MinThreshold == 3
ButtonBoost == 25
HighScore == 20
MediumScore == 5
DeltaEThreshold == 15

None == "none"

VARIABLES
    \* ---- request handler and extractBranding (Spec) ----
    pc,               \* position of the request in POST / extractBranding
    req,              \* the parsed request body: url kind and options
    browser,          \* "none" | "open" | "closed"
    responses,        \* sequence of responses the handler has returned
    attempts,         \* extractBranding: navigation attempt counter
    gotoCount,        \* number of page.goto calls of this run
    navErr,           \* the error caught by the navigation loop's catch
    contentLength,    \* last document.body.textContent.length read
    thrown,           \* the error extractBranding threw (or None)
    page,             \* global page state: theme, viewport, mouse, focus
    baseline,         \* page state when the passive batch was started
    passiveObs,       \* per analyzer: the page state it read, or None
    nInteractive,     \* number of elements page.$$ returned
    probeIdx,         \* index of the element being probed
    cur,              \* beforeState / afterHover of the current element
    hoverFocusColors, \* entries pushed by the prober
    hoverFailed,      \* elements whose hover attempt failed
    focusFailed,      \* elements whose focus attempt failed
    phasesDone,       \* phases of extractBranding that have completed
    lastRead,         \* page mutations active at the last re-extraction read
    \* ---- extractColors (SpecColors) ----
    cpc, cpage, ctotal, cmap, cpalette, cresult,
    \* ---- palette merges (SpecPalette) ----
    mpc, mopts, palette, passivePalette, hoverList,
    \* ---- scanTechStack (SpecTech) ----
    tpc, store, tpage, scanData, catIdx, fileIdx, matches, categories,
    scanFailed,
    \* ---- single calls of the browser-side helpers ----
    callPc,           \* "off" | "ready" | intermediate steps | "done"
    callArg,          \* the input the helper is called with
    callRet           \* what the helper has computed so far

mainVars == <<pc, req, browser, responses, attempts, gotoCount, navErr,
              contentLength, thrown, page, baseline, passiveObs,
              nInteractive, probeIdx, cur, hoverFocusColors, hoverFailed,
              focusFailed, phasesDone, lastRead>>
colorVars == <<cpc, cpage, ctotal, cmap, cpalette, cresult>>
palVars == <<mpc, mopts, palette, passivePalette, hoverList>>
techVars == <<tpc, store, tpage, scanData, catIdx, fileIdx, matches,
              categories, scanFailed>>
callVars == <<callPc, callArg, callRet>>
vars == <<mainVars, colorVars, palVars, techVars, callVars>>

(***************************************************************************)
(* Inputs of the request handler                                           *)
(***************************************************************************)
\* url of the request body: absent/empty, not parsable even with the
\* "https://" prefix, or parsable
UrlKinds == {"missing", "invalid", "valid"}

\* a validation the handler could have: every url is taken as parsable
ParsesAlways(u) == TRUE

\* new URL(targetUrl) of POST after the scheme prefix was added
ParsesAsUrl(u) == u = "valid"

\* error messages page.goto (or a later step of the attempt) can fail with
NavErrors == {"net::ERR_NAME_NOT_RESOLVED", "net::ERR_CONNECTION_TIMED_OUT",
              "net::ERR_CERT_DATE_INVALID", "Timeout 90000ms exceeded",
              "net::ERR_ABORTED"}

\* the marker substrings of the classification that a message contains
\* (the model of errorMsg.includes(marker))
Markers(msg) ==
    CASE msg = "net::ERR_NAME_NOT_RESOLVED" -> {"ERR_NAME_NOT_RESOLVED"}
      [] msg = "net::ERR_CONNECTION_TIMED_OUT" -> {"ERR_CONNECTION_TIMED_OUT"}
      [] msg = "net::ERR_CERT_DATE_INVALID" -> {"ERR_CERT_", "CERT_"}
      [] msg = "Timeout 90000ms exceeded" -> {"Timeout"}
      [] OTHER -> {}

isDnsError(msg) ==
    Markers(msg) \cap {"ERR_NAME_NOT_RESOLVED", "ENOTFOUND", "EAI_AGAIN",
                       "getaddrinfo"} # {}
isNetworkError(msg) ==
    Markers(msg) \cap {"ERR_CONNECTION_REFUSED", "ERR_CONNECTION_RESET",
                       "ERR_CONNECTION_TIMED_OUT", "ECONNREFUSED", "ETIMEDOUT",
                       "ECONNRESET"} # {}
isSslError(msg) == Markers(msg) \cap {"ERR_CERT_", "SSL_ERROR", "CERT_"} # {}
isTimeoutError(msg) == Markers(msg) \cap {"Timeout", "timeout"} # {}

\* the user-facing message of the navigation catch block
FriendlyError(msg) ==
    IF isDnsError(msg) THEN "DNS resolution failed"
    ELSE IF isNetworkError(msg) THEN "Network error"
    ELSE IF isSslError(msg) THEN "SSL/TLS certificate error"
    ELSE IF isTimeoutError(msg) THEN "Connection timeout"
    ELSE msg

\* the error thrown once the attempts are used up
EnhancedError(err) == [message |-> FriendlyError(err), originalError |-> err]

\* an error thrown by any other step
PlainError(msg) == [message |-> msg, originalError |-> None]

\* lengths of document.body.textContent the content validation can read
ContentLengths == {MinContentLength - 1, MinContentLength, MinContentLength + 1}

\* a bug the content validation could have: 100 characters are accepted
ContentAcceptedAtLeast(len) == len >= MinContentLength

\* "if (contentLength > 100) break"
ContentAccepted(len) == len > MinContentLength

\* "while (attempts < maxAttempts)"
MoreAttempts(n) == n < maxAttempts

\* a bug the catch block could have: the last attempt is retried as well
AttemptsUsedUpNever(n) == FALSE

\* "if (attempts >= maxAttempts)" of the catch block
AttemptsUsedUp(n) == n >= maxAttempts

(***************************************************************************)
(* The page: the global state that computed styles depend on               *)
(***************************************************************************)
\* mouse: at "initial" (new page), "simulated" (the human-behaviour move),
\*        "origin" (page.mouse.move(0, 0)) or over the "element" el
\* focus: 0 (nothing focused) | index of the focused element
MouseAt(where) == [at |-> where, el |-> 0]
MouseOver(e) == [at |-> "element", el |-> e]
InitialPage == [dark |-> FALSE, viewport |-> "desktop",
                mouse |-> MouseAt("initial"), focus |-> 0]

NoError == [message |-> None, originalError |-> None]
NoReq == [url |-> None, darkMode |-> FALSE, mobile |-> FALSE]
NoCur == [el |-> 0, tag |-> None]
NoRead == [pass |-> None, active |-> {}]
NoObs == [done |-> FALSE, saw |-> InitialPage]

\* the page mutations of the re-extraction passes that are active
ActiveMutations(p) ==
    (IF p.dark THEN {"dark"} ELSE {}) \cup
    (IF p.viewport = "mobile" THEN {"mobile"} ELSE {})

\* the 15 analyzers of the Promise.all batch
Analyzers == {"extractColors", "extractTypography", "extractSpacing",
              "extractBorderRadius", "extractBorders", "extractShadows",
              "extractButtonStyles", "extractInputStyles", "extractLinkStyles",
              "extractBreakpoints", "detectIconSystem", "detectFrameworks",
              "extractBadgesAndTags", "extractForms",
              "extractAccessibilityAudit"}

\* a bug an analyzer could have: the audit focuses the element it samples
AnalyzerEffectFocus(a, p) ==
    IF a = "extractAccessibilityAudit" THEN [p EXCEPT !.focus = 1] ELSE p

\* the page state an analyzer leaves behind: each is one page.evaluate that
\* only reads the DOM and computed styles
AnalyzerEffect(a, p) == p

\* what an analyzer's result depends on: the page state it reads
AnalyzerRead(a, p) == [done |-> TRUE, saw |-> p]

passiveDone == {a \in Analyzers : passiveObs[a].done}

\* a bug the batch could have: the first settled analyzer ends the wait
\* (Promise.race instead of Promise.all)
BatchSettledRace == passiveDone # {}

\* "await Promise.all([...])": all 15 analyzers have resolved
BatchSettled == passiveDone = Analyzers

(***************************************************************************)
(* POST handler: validation, launch                                        *)
(***************************************************************************)
Respond(status, err, hasReport) ==
    responses' = Append(responses,
                        [status |-> status, error |-> err, report |-> hasReport])

\* request.json() rejects: the handler's catch block answers
PostBadJson ==
    /\ pc = "request"
    /\ thrown' = PlainError("invalid json")
    /\ pc' = "post_catch"
    /\ UNCHANGED <<req, browser, responses, attempts, gotoCount, navErr,
                   contentLength, page, baseline, passiveObs,
                   nInteractive, probeIdx, cur, hoverFocusColors, hoverFailed,
                   focusFailed, phasesDone, lastRead>>

\* body parsed; url and options read; validation
PostReceive ==
    /\ pc = "request"
    /\ \E u \in UrlKinds, dm \in BOOLEAN, mb \in BOOLEAN :
         /\ req' = [url |-> u, darkMode |-> dm, mobile |-> mb]
         /\ IF u = "missing"
              THEN /\ Respond(400, "URL is required", FALSE)
                   /\ pc' = "done"
            ELSE IF ~ParsesAsUrl(u)
              THEN /\ Respond(400, "Invalid URL format", FALSE)
                   /\ pc' = "done"
            ELSE /\ pc' = "launch"
                 /\ UNCHANGED responses
    /\ UNCHANGED <<browser, attempts, gotoCount, navErr, contentLength,
                   thrown, page, baseline, passiveObs, nInteractive,
                   probeIdx, cur, hoverFocusColors, hoverFailed, focusFailed,
                   phasesDone, lastRead>>

\* chromium.launch
PostLaunch ==
    /\ pc = "launch"
    /\ \/ /\ browser' = "open"
          /\ pc' = "eb_context"
          /\ UNCHANGED thrown
       \/ /\ thrown' = PlainError("launch failed")
          /\ pc' = "post_catch"
          /\ UNCHANGED browser
    /\ UNCHANGED <<req, responses, attempts, gotoCount, navErr, contentLength,
                   page, baseline, passiveObs, nInteractive,
                   probeIdx, cur, hoverFocusColors, hoverFailed, focusFailed,
                   phasesDone, lastRead>>

(***************************************************************************)
(* extractBranding: context, navigation retry loop                         *)
(***************************************************************************)
\* browser.newContext, context.addInitScript, context.newPage: outside the
\* try block; the handler passes its browser, so ownBrowser is false
EbContext ==
    /\ pc = "eb_context"
    /\ \/ /\ pc' = "nav_loop"
          /\ attempts' = 0
          /\ UNCHANGED thrown
       \/ /\ thrown' = PlainError("context failed")
          /\ pc' = "post_catch"
          /\ UNCHANGED attempts
    /\ UNCHANGED <<req, browser, responses, gotoCount, navErr, contentLength,
                   page, baseline, passiveObs, nInteractive,
                   probeIdx, cur, hoverFocusColors, hoverFailed, focusFailed,
                   phasesDone, lastRead>>

\* loop head, attempts++ and page.goto
NavGoto ==
    /\ pc = "nav_loop"
    /\ MoreAttempts(attempts)
    /\ attempts' = attempts + 1
    /\ gotoCount' = gotoCount + 1
    /\ \/ /\ pc' = "stabilize"
          /\ UNCHANGED navErr
       \/ \E e \in NavErrors :
            /\ navErr' = e
            /\ pc' = "nav_catch"
    /\ UNCHANGED <<req, browser, responses, contentLength, thrown,
                   page, baseline, passiveObs, nInteractive, probeIdx, cur,
                   hoverFocusColors, hoverFailed, focusFailed, phasesDone,
                   lastRead>>

\* the loop condition fails: the last result is accepted as it is
NavExhausted ==
    /\ pc = "nav_loop"
    /\ ~MoreAttempts(attempts)
    /\ pc' = "logo"
    /\ UNCHANGED <<req, browser, responses, attempts, gotoCount, navErr,
                   contentLength, thrown, page, baseline, passiveObs,
                   nInteractive, probeIdx, cur, hoverFocusColors, hoverFailed,
                   focusFailed, phasesDone, lastRead>>

\* hydration wait, main-content wait (its timeout is tolerated), mouse move,
\* scroll, stabilization wait; an exception goes to the same catch block
Stabilize ==
    /\ pc = "stabilize"
    /\ \/ /\ page' = [page EXCEPT !.mouse = MouseAt("simulated")]
          /\ pc' = "content_check"
          /\ UNCHANGED navErr
       \/ /\ navErr' = "net::ERR_ABORTED"
          /\ pc' = "nav_catch"
          /\ UNCHANGED page
    /\ UNCHANGED <<req, browser, responses, attempts, gotoCount, contentLength,
                   thrown, baseline, passiveObs, nInteractive,
                   probeIdx, cur, hoverFocusColors, hoverFailed, focusFailed,
                   phasesDone, lastRead>>

\* content validation
ContentCheck ==
    /\ pc = "content_check"
    /\ \E len \in ContentLengths :
         /\ contentLength' = len
         /\ pc' = IF ContentAccepted(len) THEN "logo" ELSE "content_wait"
    /\ UNCHANGED <<req, browser, responses, attempts, gotoCount, navErr,
                   thrown, page, baseline, passiveObs, nInteractive,
                   probeIdx, cur, hoverFocusColors, hoverFailed, focusFailed,
                   phasesDone, lastRead>>

\* "Page seems empty ... retrying": wait, then back to the loop head (the
\* block-scoped contentLength is gone)
ContentWait ==
    /\ pc = "content_wait"
    /\ pc' = "nav_loop"
    /\ contentLength' = 0
    /\ UNCHANGED <<req, browser, responses, attempts, gotoCount, navErr,
                   thrown, page, baseline, passiveObs,
                   nInteractive, probeIdx, cur, hoverFocusColors, hoverFailed,
                   focusFailed, phasesDone, lastRead>>

\* catch block of the attempt
NavCatch ==
    /\ pc = "nav_catch"
    /\ IF AttemptsUsedUp(attempts)
         THEN /\ thrown' = EnhancedError(navErr)
              /\ pc' = "eb_catch"
         ELSE /\ pc' = "nav_backoff"
              /\ UNCHANGED thrown
    /\ UNCHANGED <<req, browser, responses, attempts, gotoCount, navErr,
                   contentLength, page, baseline, passiveObs,
                   nInteractive, probeIdx, cur, hoverFocusColors, hoverFailed,
                   focusFailed, phasesDone, lastRead>>

\* "await page.waitForTimeout(3000 * timeoutMultiplier)" of the catch block;
\* the caught err goes out of scope
NavBackoff ==
    /\ pc = "nav_backoff"
    /\ navErr' = None
    /\ pc' = "nav_loop"
    /\ UNCHANGED <<req, browser, responses, attempts, gotoCount,
                   contentLength, thrown, page, baseline, passiveObs,
                   nInteractive, probeIdx, cur, hoverFocusColors, hoverFailed,
                   focusFailed, phasesDone, lastRead>>

\* extractLogo (the loop's block-scoped contentLength is gone)
EbLogo ==
    /\ pc = "logo"
    /\ contentLength' = 0
    /\ \/ /\ pc' = "passive"
          /\ baseline' = page
          /\ UNCHANGED thrown
       \/ /\ thrown' = PlainError("extractLogo failed")
          /\ pc' = "eb_catch"
          /\ UNCHANGED baseline
    /\ UNCHANGED <<req, browser, responses, attempts, gotoCount, navErr,
                   page, passiveObs, nInteractive,
                   probeIdx, cur, hoverFocusColors, hoverFailed, focusFailed,
                   phasesDone, lastRead>>

(***************************************************************************)
(* extractBranding: the passive batch                                      *)
(***************************************************************************)
\* one analyzer of the batch runs its page.evaluate
PassiveAnalyzer(a) ==
    /\ pc = "passive"
    /\ ~passiveObs[a].done
    /\ passiveObs' = [passiveObs EXCEPT ![a] = AnalyzerRead(a, page)]
    /\ page' = AnalyzerEffect(a, page)
    /\ UNCHANGED <<pc, req, browser, responses, attempts, gotoCount, navErr,
                   contentLength, thrown, baseline, nInteractive,
                   probeIdx, cur, hoverFocusColors, hoverFailed, focusFailed,
                   phasesDone, lastRead>>

\* an analyzer rejects: Promise.all rejects and the catch block runs
PassiveFail ==
    /\ pc = "passive"
    /\ ~BatchSettled
    /\ thrown' = PlainError("analyzer failed")
    /\ pc' = "eb_catch"
    /\ UNCHANGED <<req, browser, responses, attempts, gotoCount, navErr,
                   contentLength, page, baseline, passiveObs,
                   nInteractive, probeIdx, cur, hoverFocusColors, hoverFailed,
                   focusFailed, phasesDone, lastRead>>

(***************************************************************************)
(* extractBranding: hover/focus probing                                    *)
(***************************************************************************)
\* "interactiveElements.slice(0, 20)": number of sampled elements
SampledAll(n) == n
Sampled(n) == IF n < SampleLimit THEN n ELSE SampleLimit

\* the colour properties a :hover style can change, per element
HoverDeltas == {{}, {"color"}, {"background-color", "border-color"}}
\* the focus entries a successful focus yields, per element
FocusDeltas == {{}, {"outline-color"}, {"border-color"}}
\* tags of the probed elements; the second group also gets a focus attempt
ProbeTags == {"a", "button", "input"}
FocusTags == {"input", "textarea", "select", "button"}

\* a bug the hover step could have: a failed hover still moves the pointer
\* state of the page to the element
HoverMouseAlways(ok, e, mouse) == MouseOver(e)

\* "await element.hover({timeout}).catch(() => {})": where the mouse is after
\* the attempt; a failed or timed-out attempt leaves it where it was
HoverMouse(ok, e, mouse) == IF ok THEN MouseOver(e) ELSE mouse

\* the properties whose computed value differs between beforeState and
\* afterHover: the element's :hover delta, when the hover state changed
HoverDiff(delta, hoveredBefore, hoveredAfter) ==
    IF hoveredAfter /\ ~hoveredBefore THEN delta ELSE {}

\* the entries pushed for one interaction, in the order of the code
RECURSIVE Entries(_, _, _)
Entries(e, state, props) ==
    IF props = {} THEN <<>>
    ELSE LET order == <<"color", "background-color", "outline-color",
                        "border-color">>
             first == CHOOSE i \in 1..4 :
                        /\ order[i] \in props
                        /\ \A j \in 1..(i - 1) : order[j] \notin props
         IN <<[el |-> e, state |-> state, property |-> order[first]]>>
              \o Entries(e, state, props \ {order[first]})

\* page.$$ of the interactive selector, slice(0, 20)
StartProbe ==
    /\ pc = "passive"
    /\ BatchSettled
    /\ \/ \E n \in 0..MaxInteractive :
            /\ nInteractive' = n
            /\ probeIdx' = 1
            /\ hoverFocusColors' = <<>>
            /\ pc' = "probe"
            /\ UNCHANGED thrown
       \/ /\ thrown' = PlainError("page.$$ failed")
          /\ pc' = "eb_catch"
          /\ UNCHANGED <<nInteractive, probeIdx, hoverFocusColors>>
    /\ UNCHANGED <<req, browser, responses, attempts, gotoCount, navErr,
                   contentLength, page, baseline, passiveObs, cur,
                   hoverFailed, focusFailed, phasesDone, lastRead>>

\* one iteration of the loop up to the focus attempt: visibility check,
\* beforeState, hover, afterHover, comparison
ProbeHover ==
    /\ pc = "probe"
    /\ probeIdx <= Sampled(nInteractive)
    /\ \E visible \in BOOLEAN, tag \in ProbeTags, delta \in HoverDeltas,
          ok \in BOOLEAN :
         LET e == probeIdx
             mouseAfter == HoverMouse(ok, e, page.mouse)
             diff == HoverDiff(delta, page.mouse = MouseOver(e),
                              mouseAfter = MouseOver(e))
         IN IF ~visible
              THEN \* "if (!isVisible) continue"
                   /\ probeIdx' = probeIdx + 1
                   /\ UNCHANGED <<pc, page, cur, hoverFocusColors, hoverFailed>>
              ELSE /\ page' = [page EXCEPT !.mouse = mouseAfter]
                   /\ hoverFocusColors' =
                        hoverFocusColors \o Entries(e, "hover", diff)
                   /\ hoverFailed' =
                        IF ok THEN hoverFailed ELSE hoverFailed \cup {e}
                   /\ IF tag \in FocusTags
                        THEN /\ pc' = "probe_focus"
                             /\ cur' = [el |-> e, tag |-> tag]
                             /\ UNCHANGED probeIdx
                        ELSE /\ probeIdx' = probeIdx + 1
                             /\ UNCHANGED <<pc, cur>>
    /\ UNCHANGED <<req, browser, responses, attempts, gotoCount, navErr,
                   contentLength, thrown, baseline, passiveObs,
                   nInteractive, focusFailed, phasesDone, lastRead>>

\* element.evaluate rejects (stale element): the iteration's catch block
ProbeStale ==
    /\ pc \in {"probe", "probe_focus"}
    /\ probeIdx <= Sampled(nInteractive)
    /\ probeIdx' = probeIdx + 1
    /\ pc' = "probe"
    /\ cur' = NoCur
    /\ UNCHANGED <<req, browser, responses, attempts, gotoCount, navErr,
                   contentLength, thrown, page, baseline, passiveObs,
                   nInteractive, hoverFocusColors, hoverFailed, focusFailed,
                   phasesDone, lastRead>>

\* "Try focus for inputs/buttons": focus, afterFocus, comparison; a failed
\* focus is caught by the inner catch block
ProbeFocus ==
    /\ pc = "probe_focus"
    /\ \E delta \in FocusDeltas, ok \in BOOLEAN :
         LET e == cur.el
         IN IF ok
              THEN /\ page' = [page EXCEPT !.focus = e]
                   /\ hoverFocusColors' =
                        hoverFocusColors \o Entries(e, "focus", delta)
                   /\ UNCHANGED focusFailed
              ELSE /\ focusFailed' = focusFailed \cup {e}
                   /\ UNCHANGED <<page, hoverFocusColors>>
    /\ probeIdx' = probeIdx + 1
    /\ pc' = "probe"
    /\ cur' = NoCur
    /\ UNCHANGED <<req, browser, responses, attempts, gotoCount, navErr,
                   contentLength, thrown, baseline, passiveObs,
                   nInteractive, hoverFailed, phasesDone, lastRead>>

\* "await page.mouse.move(0, 0).catch(() => {})" after the loop
MouseReset ==
    /\ pc = "probe"
    /\ probeIdx > Sampled(nInteractive)
    /\ \E ok \in BOOLEAN :
         page' = [page EXCEPT !.mouse = IF ok THEN MouseAt("origin") ELSE @]
    /\ phasesDone' = phasesDone \cup {"probe"}
    /\ pc' = "hover_merge"
    /\ UNCHANGED <<req, browser, responses, attempts, gotoCount, navErr,
                   contentLength, thrown, baseline, passiveObs,
                   nInteractive, probeIdx, cur, hoverFocusColors, hoverFailed,
                   focusFailed, lastRead>>

\* the pass that follows the given one, by the options
AfterPass(pass, opts) ==
    IF pass = "hoverMerge" /\ opts.darkMode THEN "dark_apply"
    ELSE IF pass \in {"hoverMerge", "dark"} /\ opts.mobile THEN "mobile_apply"
    ELSE "report"

\* hoverFocusColors.forEach(...) merges the entries into colors.palette
HoverMerge ==
    /\ pc = "hover_merge"
    /\ phasesDone' = phasesDone \cup {"hoverMerge"}
    /\ pc' = AfterPass("hoverMerge", req)
    /\ UNCHANGED <<req, browser, responses, attempts, gotoCount, navErr,
                   contentLength, thrown, page, baseline, passiveObs,
                   nInteractive, probeIdx, cur, hoverFocusColors, hoverFailed,
                   focusFailed, lastRead>>

(***************************************************************************)
(* extractBranding: dark-mode pass, mobile pass, report                    *)
(***************************************************************************)
\* data-theme / data-mode attributes, dark classes, emulateMedia, wait
DarkApply ==
    /\ pc = "dark_apply"
    /\ page' = [page EXCEPT !.dark = TRUE]
    /\ pc' = "dark_extract"
    /\ UNCHANGED <<req, browser, responses, attempts, gotoCount, navErr,
                   contentLength, thrown, baseline, passiveObs,
                   nInteractive, probeIdx, cur, hoverFocusColors, hoverFailed,
                   focusFailed, phasesDone, lastRead>>

\* extractColors, extractButtonStyles, extractLinkStyles under the dark theme
DarkExtract ==
    /\ pc = "dark_extract"
    /\ lastRead' = [pass |-> "dark", active |-> ActiveMutations(page)]
    /\ pc' = "dark_merge"
    /\ UNCHANGED <<req, browser, responses, attempts, gotoCount, navErr,
                   contentLength, thrown, page, baseline, passiveObs,
                   nInteractive, probeIdx, cur, hoverFocusColors, hoverFailed,
                   focusFailed, phasesDone>>

\* palette, semantic, button and link merges of the dark pass
DarkMerge ==
    /\ pc = "dark_merge"
    /\ phasesDone' = phasesDone \cup {"dark"}
    /\ pc' = AfterPass("dark", req)
    /\ UNCHANGED <<req, browser, responses, attempts, gotoCount, navErr,
                   contentLength, thrown, page, baseline, passiveObs,
                   nInteractive, probeIdx, cur, hoverFocusColors, hoverFailed,
                   focusFailed, lastRead>>

\* setViewportSize(375 x 667), wait
MobileApply ==
    /\ pc = "mobile_apply"
    /\ page' = [page EXCEPT !.viewport = "mobile"]
    /\ pc' = "mobile_extract"
    /\ UNCHANGED <<req, browser, responses, attempts, gotoCount, navErr,
                   contentLength, thrown, baseline, passiveObs,
                   nInteractive, probeIdx, cur, hoverFocusColors, hoverFailed,
                   focusFailed, phasesDone, lastRead>>

\* extractColors under the mobile viewport
MobileExtract ==
    /\ pc = "mobile_extract"
    /\ lastRead' = [pass |-> "mobile", active |-> ActiveMutations(page)]
    /\ pc' = "mobile_merge"
    /\ UNCHANGED <<req, browser, responses, attempts, gotoCount, navErr,
                   contentLength, thrown, page, baseline, passiveObs,
                   nInteractive, probeIdx, cur, hoverFocusColors, hoverFailed,
                   focusFailed, phasesDone>>

\* palette merge of the mobile pass
MobileMerge ==
    /\ pc = "mobile_merge"
    /\ phasesDone' = phasesDone \cup {"mobile"}
    /\ pc' = AfterPass("mobile", req)
    /\ UNCHANGED <<req, browser, responses, attempts, gotoCount, navErr,
                   contentLength, thrown, page, baseline, passiveObs,
                   nInteractive, probeIdx, cur, hoverFocusColors, hoverFailed,
                   focusFailed, lastRead>>

\* "const result = { url, extractedAt, logo, ..., accessibility }"
Report ==
    /\ pc = "report"
    /\ phasesDone' = phasesDone \cup {"report"}
    /\ pc' = "canvas"
    /\ UNCHANGED <<req, browser, responses, attempts, gotoCount, navErr,
                   contentLength, thrown, page, baseline, passiveObs,
                   nInteractive, probeIdx, cur, hoverFocusColors, hoverFailed,
                   focusFailed, lastRead>>

\* extractBranding has returned or thrown: its locals, its page and the
\* bookkeeping of the run are gone
FrameLeft ==
    /\ attempts' = 0 /\ gotoCount' = 0 /\ navErr' = None
    /\ contentLength' = 0 /\ page' = InitialPage /\ baseline' = InitialPage
    /\ passiveObs' = [a \in Analyzers |-> NoObs]
    /\ nInteractive' = 0 /\ probeIdx' = 0 /\ cur' = NoCur
    /\ hoverFocusColors' = <<>> /\ hoverFailed' = {} /\ focusFailed' = {}
    /\ phasesDone' = {} /\ lastRead' = NoRead

\* canvas-only detection, then "return result" (ownBrowser is false)
Canvas ==
    /\ pc = "canvas"
    /\ pc' = "scan_context"
    /\ FrameLeft
    /\ UNCHANGED <<req, browser, responses, thrown>>

\* an awaited page call of a pass rejects: the catch block of extractBranding
LatePcs == {"dark_apply", "dark_extract", "mobile_apply", "mobile_extract",
            "canvas"}
LateFail ==
    /\ pc \in LatePcs
    /\ thrown' = PlainError("page call failed")
    /\ pc' = "eb_catch"
    /\ UNCHANGED <<req, browser, responses, attempts, gotoCount, navErr,
                   contentLength, page, baseline, passiveObs,
                   nInteractive, probeIdx, cur, hoverFocusColors, hoverFailed,
                   focusFailed, phasesDone, lastRead>>

\* catch block of extractBranding: "if (ownBrowser) await browser.close()"
\* does nothing for a passed browser; the error is rethrown
EbCatch ==
    /\ pc = "eb_catch"
    /\ pc' = "post_catch"
    /\ FrameLeft
    /\ UNCHANGED <<req, browser, responses, thrown>>

(***************************************************************************)
(* POST handler: tech scan, close, response                                *)
(***************************************************************************)
\* newContext + newPage, goto + wait, scanTechStack, detectBuiltInTech
ScanStages == <<"scan_context", "scan_goto", "scan_tech", "builtin">>
StageAfter(s) ==
    CASE s = "scan_context" -> "scan_goto"
      [] s = "scan_goto" -> "scan_tech"
      [] s = "scan_tech" -> "builtin"
      [] s = "builtin" -> "close"

ScanStage ==
    /\ \E i \in 1..Len(ScanStages) : pc = ScanStages[i]
    /\ \/ /\ pc' = StageAfter(pc)
          /\ UNCHANGED thrown
       \/ /\ thrown' = PlainError(pc)
          /\ pc' = "post_catch"
    /\ UNCHANGED <<req, browser, responses, attempts, gotoCount, navErr,
                   contentLength, page, baseline, passiveObs,
                   nInteractive, probeIdx, cur, hoverFocusColors, hoverFailed,
                   focusFailed, phasesDone, lastRead>>

\* "await browser.close(); browser = null"
ClosedState(b) == "closed"

PostClose ==
    /\ pc = "close"
    /\ browser' = ClosedState(browser)
    /\ pc' = "respond"
    /\ UNCHANGED <<req, responses, attempts, gotoCount, navErr, contentLength,
                   thrown, page, baseline, passiveObs, nInteractive,
                   probeIdx, cur, hoverFocusColors, hoverFailed, focusFailed,
                   phasesDone, lastRead>>

\* "return json({...result, techStack, techCategories, detectedTech})"
PostRespond ==
    /\ pc = "respond"
    /\ Respond(200, None, TRUE)
    /\ pc' = "done"
    /\ UNCHANGED <<req, browser, attempts, gotoCount, navErr, contentLength,
                   thrown, page, baseline, passiveObs, nInteractive,
                   probeIdx, cur, hoverFocusColors, hoverFailed, focusFailed,
                   phasesDone, lastRead>>

\* a bug the catch block could have: the browser is not closed
CatchClosesNever(b) == b

\* "if (browser) { await browser.close(); }"
CatchCloses(b) == IF b = "open" THEN "closed" ELSE b

\* catch block of the handler
PostCatch ==
    /\ pc = "post_catch"
    /\ browser' = CatchCloses(browser)
    /\ Respond(500, thrown.message, FALSE)
    /\ pc' = "done"
    /\ UNCHANGED <<req, attempts, gotoCount, navErr, contentLength, thrown, page, baseline, passiveObs, nInteractive, probeIdx,
                   cur, hoverFocusColors, hoverFailed, focusFailed, phasesDone,
                   lastRead>>

(***************************************************************************)
(* Specification of the request handler and extractBranding                *)
(***************************************************************************)
MainIdle ==
    /\ pc = "off" /\ req = NoReq /\ browser = "none" /\ responses = <<>>
    /\ attempts = 0 /\ gotoCount = 0 /\ navErr = None /\ contentLength = 0
    /\ thrown = NoError /\ page = InitialPage
    /\ baseline = InitialPage /\ passiveObs = [a \in Analyzers |-> NoObs]
    /\ nInteractive = 0 /\ probeIdx = 0 /\ cur = NoCur
    /\ hoverFocusColors = <<>> /\ hoverFailed = {} /\ focusFailed = {}
    /\ phasesDone = {} /\ lastRead = NoRead

ColorIdle ==
    /\ cpc = "off" /\ cpage = <<>> /\ ctotal = 0 /\ cmap = <<>>
    /\ cpalette = <<>> /\ cresult = <<>>
PalIdle ==
    /\ mpc = "off" /\ mopts = NoReq /\ palette = <<>> /\ passivePalette = <<>>
    /\ hoverList = <<>>
TechIdle ==
    /\ tpc = "off" /\ store = <<>> /\ tpage = <<>> /\ scanData = <<>>
    /\ catIdx = 0 /\ fileIdx = 0 /\ matches = <<>> /\ categories = <<>>
    /\ scanFailed = FALSE
CallIdle ==
    /\ callPc = "off" /\ callArg = <<>> /\ callRet = <<>>

Init ==
    /\ pc = "request" /\ req = NoReq /\ browser = "none" /\ responses = <<>>
    /\ attempts = 0 /\ gotoCount = 0 /\ navErr = None /\ contentLength = 0
    /\ thrown = NoError /\ page = InitialPage
    /\ baseline = InitialPage /\ passiveObs = [a \in Analyzers |-> NoObs]
    /\ nInteractive = 0 /\ probeIdx = 0 /\ cur = NoCur
    /\ hoverFocusColors = <<>> /\ hoverFailed = {} /\ focusFailed = {}
    /\ phasesDone = {} /\ lastRead = NoRead
    /\ ColorIdle /\ PalIdle /\ TechIdle /\ CallIdle

MainOnly == UNCHANGED <<colorVars, palVars, techVars, callVars>>

Next ==
    \/ PostBadJson /\ MainOnly
    \/ PostReceive /\ MainOnly
    \/ PostLaunch /\ MainOnly
    \/ EbContext /\ MainOnly
    \/ NavGoto /\ MainOnly
    \/ NavExhausted /\ MainOnly
    \/ Stabilize /\ MainOnly
    \/ ContentCheck /\ MainOnly
    \/ ContentWait /\ MainOnly
    \/ NavCatch /\ MainOnly
    \/ NavBackoff /\ MainOnly
    \/ EbLogo /\ MainOnly
    \/ (\E a \in Analyzers : PassiveAnalyzer(a)) /\ MainOnly
    \/ PassiveFail /\ MainOnly
    \/ StartProbe /\ MainOnly
    \/ ProbeHover /\ MainOnly
    \/ ProbeStale /\ MainOnly
    \/ ProbeFocus /\ MainOnly
    \/ MouseReset /\ MainOnly
    \/ HoverMerge /\ MainOnly
    \/ DarkApply /\ MainOnly
    \/ DarkExtract /\ MainOnly
    \/ DarkMerge /\ MainOnly
    \/ MobileApply /\ MainOnly
    \/ MobileExtract /\ MainOnly
    \/ MobileMerge /\ MainOnly
    \/ Report /\ MainOnly
    \/ Canvas /\ MainOnly
    \/ LateFail /\ MainOnly
    \/ EbCatch /\ MainOnly
    \/ ScanStage /\ MainOnly
    \/ PostClose /\ MainOnly
    \/ PostRespond /\ MainOnly
    \/ PostCatch /\ MainOnly

Spec == Init /\ [][Next]_vars

(***************************************************************************)
(* Claims about the request handler and extractBranding (Spec)             *)
(***************************************************************************)
ProbePcs == {"probe", "probe_focus", "hover_merge"}
DarkPcs == {"dark_apply", "dark_extract", "dark_merge"}
MobilePcs == {"mobile_apply", "mobile_extract", "mobile_merge"}

\* C1: the phases of extractBranding are strictly ordered: probing starts
\* only after all 15 analyzers of the batch have resolved; the dark-mode pass
\* starts only after probing and the hover/focus merge; the mobile pass only
\* after the dark-mode pass (when that one is enabled); the report is
\* assembled only after every enabled pass has finished.
PhasesOrdered ==
    /\ pc \in ProbePcs => \A a \in Analyzers : passiveObs[a].done
    /\ pc \in DarkPcs => {"probe", "hoverMerge"} \subseteq phasesDone
    /\ pc \in MobilePcs =>
         /\ {"probe", "hoverMerge"} \subseteq phasesDone
         /\ req.darkMode => "dark" \in phasesDone
    /\ "report" \in phasesDone =>
         /\ \A a \in Analyzers : passiveObs[a].done
         /\ {"probe", "hoverMerge"} \subseteq phasesDone
         /\ req.darkMode => "dark" \in phasesDone
         /\ req.mobile => "mobile" \in phasesDone
    /\ "dark" \in phasesDone => req.darkMode
    /\ "mobile" \in phasesDone => req.mobile

PhasesOrderedWitness ==
    /\ pc = "canvas"
    /\ req.darkMode /\ req.mobile
    /\ phasesDone = {"probe", "hoverMerge", "dark", "mobile", "report"}

\* C2: whenever a re-extraction pass reads computed styles, at most one of
\* the two global page mutations (forced dark theme, mobile viewport) is
\* active.
ReadsIsolated == Cardinality(lastRead.active) <= 1

\* C3: page.goto is attempted at most twice; a failure on attempt 1 is
\* followed by the backoff wait and then attempt 2; a failure on attempt 2
\* throws the error carrying the friendly message and the original error,
\* and no analyzer runs after it.
NavigationRetriedOnce ==
    /\ [](gotoCount <= maxAttempts)
    /\ [][pc = "nav_catch" /\ attempts < maxAttempts
            => pc' = "nav_backoff" /\ thrown' = NoError]_vars
    /\ [][pc = "nav_backoff"
            => pc' = "nav_loop" /\ attempts' = attempts]_vars
    /\ [][pc = "nav_loop" /\ attempts = 1
            => attempts' = 2 /\ gotoCount' = 2
               /\ pc' \in {"stabilize", "nav_catch"}]_vars
    /\ [][pc = "nav_catch" /\ attempts = maxAttempts
            => /\ pc' = "eb_catch"
               /\ thrown'.message = FriendlyError(navErr)
               /\ thrown'.originalError = navErr]_vars
    /\ [](thrown.originalError # None
            => /\ pc \in {"eb_catch", "post_catch", "done"}
               /\ \A a \in Analyzers : ~passiveObs[a].done)

NavigationRetriedOnceWitness ==
    /\ pc = "eb_catch"
    /\ gotoCount = 2
    /\ thrown = [message |-> "DNS resolution failed",
                 originalError |-> "net::ERR_NAME_NOT_RESOLVED"]

\* C4 as stated: a page is sent back for another attempt only when its text
\* is shorter than 100 characters; 100 or more characters are accepted at
\* once.
RetryOnlyBelow100 ==
    /\ pc = "content_wait" => contentLength < MinContentLength
    /\ pc = "logo" /\ contentLength # 0 => contentLength >= MinContentLength

\* C4 (amended): after a successful navigation a page of 100 or fewer
\* characters is sent back for another attempt while attempts remain, and
\* is accepted without error once the attempt limit is reached; a page of
\* more than 100 characters is accepted at once.
ShortContentRetried ==
    /\ [](pc = "content_wait" => contentLength <= MinContentLength)
    /\ [](pc = "logo" /\ contentLength # 0
            => contentLength > MinContentLength)
    /\ [][pc = "content_check"
            => pc' \in {"logo", "content_wait"} /\ thrown' = NoError]_vars
    /\ [][pc = "content_wait" => pc' = "nav_loop"]_vars
    /\ [][pc = "nav_loop" /\ attempts < maxAttempts
            => attempts' = attempts + 1 /\ gotoCount' = gotoCount + 1]_vars
    /\ [][pc = "nav_loop" /\ attempts >= maxAttempts
            => pc' = "logo" /\ thrown' = NoError]_vars

ShortContentRetriedWitness ==
    /\ pc = "content_wait"
    /\ attempts = maxAttempts
    /\ contentLength = MinContentLength

\* C5: when the handler has answered, a launched browser is closed, on the
\* success path and on every failure path; a failure after the launch gives
\* exactly one response, with status 500, the error and no report.
BrowserClosedOnReturn ==
    /\ Len(responses) <= 1
    /\ pc = "done" <=> Len(responses) = 1
    /\ responses # <<>> => browser # "open"
    /\ responses # <<>> /\ browser # "none" /\ thrown # NoError
         => responses[1] = [status |-> 500, error |-> thrown.message,
                            report |-> FALSE]
    /\ responses # <<>> /\ browser # "none" /\ thrown = NoError
         => responses[1] = [status |-> 200, error |-> None, report |-> TRUE]

BrowserClosedOnReturnWitness ==
    /\ pc = "done"
    /\ browser = "closed"
    /\ thrown.message = "scan_tech"
    /\ responses = <<[status |-> 500, error |-> "scan_tech",
                      report |-> FALSE]>>

PassiveBatchReadOnly ==
    /\ pc = "passive" => page = baseline
    /\ \A a \in Analyzers : passiveObs[a].done => passiveObs[a].saw = baseline

PassiveBatchReadOnlyWitness ==
    /\ pc = "passive"
    /\ \A a \in Analyzers : passiveObs[a].done

(***************************************************************************)
(* extractColors                                                           *)
(***************************************************************************)
\* A colour token is the text of one colour: "rgb(r, g, b)",
\* "rgba(r, g, b, a)" (a in percent), a keyword, or the "#rrggbb" text that
\* normalizeColor produces.
Rgb(r, g, b) == [fmt |-> "rgb", name |-> "", r |-> r, g |-> g, b |-> b,
                 a |-> 100]
Rgba(r, g, b, a) == [fmt |-> "rgba", name |-> "", r |-> r, g |-> g, b |-> b,
                     a |-> a]
Hex(r, g, b) == [fmt |-> "hex", name |-> "", r |-> r, g |-> g, b |-> b,
                 a |-> 100]
Named(n) == [fmt |-> "named", name |-> n, r |-> 0, g |-> 0, b |-> 0,
             a |-> 100]
Transparent == Rgba(0, 0, 0, 0)
White == Rgb(255, 255, 255)
Black == Rgb(0, 0, 0)
LightGray == Rgb(239, 239, 239)

\* "hsl(h, s%, l%)": the fields r, g, b hold h, s, l
Hsl(h, s, l) == [fmt |-> "hsl", name |-> "", r |-> h, g |-> s, b |-> l,
                 a |-> 100]
\* the same text written in capitals: "RGB(1, 2, 3)", "HSL(0, 0%, 0%)",
\* "#6366F1", "Red"
UpperCase(c) ==
    [c EXCEPT !.fmt = CASE c.fmt = "rgb" -> "RGB"
                        [] c.fmt = "rgba" -> "RGBA"
                        [] c.fmt = "hsl" -> "HSL"
                        [] c.fmt = "hex" -> "HEX"
                        [] c.fmt = "named" -> "Named"
                        [] OTHER -> c.fmt]
\* color.toLowerCase()
LowerCase(c) ==
    [c EXCEPT !.fmt = CASE c.fmt = "RGB" -> "rgb"
                        [] c.fmt = "RGBA" -> "rgba"
                        [] c.fmt = "HSL" -> "hsl"
                        [] c.fmt = "HEX" -> "hex"
                        [] c.fmt = "Named" -> "named"
                        [] OTHER -> c.fmt]

Abs(n) == IF n < 0 THEN 0 - n ELSE n
\* Math.round(num / den) for num >= 0
Round(num, den) == (2 * num + den) \div (2 * den)

\* the HSL branch: c, x and m of the code as exact fractions over 600000
\* (the code's floating point gives the same bytes for the tokens below)
HslToHex(h, sPercent, lPercent) ==
    LET c == (100 - Abs(2 * lPercent - 100)) * sPercent        \* c * 10000
        x == c * (60 - Abs((h % 120) - 60))                    \* x * 600000
        m == 30 * (200 * lPercent - c)                         \* m * 600000
        toHex(n) == Round((n + m) * 255, 600000)
        C == toHex(60 * c)
        X == toHex(x)
        Z == toHex(0)
    IN IF h < 60 THEN Hex(C, X, Z)
       ELSE IF h < 120 THEN Hex(X, C, Z)
       ELSE IF h < 180 THEN Hex(Z, C, X)
       ELSE IF h < 240 THEN Hex(Z, X, C)
       ELSE IF h < 300 THEN Hex(X, Z, C)
       ELSE Hex(C, Z, X)

\* normalizeColor: text matching rgb( / rgba( becomes "#rrggbb" (the alpha
\* is dropped), text matching hsl( / hsla( is converted, and any other
\* text, the capitalised function names included, is lower-cased
normalizeColor(c) ==
    IF c.fmt \in {"rgb", "rgba"} THEN Hex(c.r, c.g, c.b)
    ELSE IF c.fmt = "hsl" THEN HslToHex(c.r, c.g, c.b)
    ELSE LowerCase(c)

\* the filter of extractColorsFromValue on the tokens of one property value
RECURSIVE extractColorsFromValue(_)
extractColorsFromValue(tokens) ==
    IF tokens = <<>> THEN <<>>
    ELSE LET c == Head(tokens)
             rest == extractColorsFromValue(Tail(tokens))
         IN IF c = Transparent \/ c = Named("transparent") THEN rest
            ELSE <<c>> \o rest

\* extractGradientColors on the colour tokens of a box-shadow value
RECURSIVE extractGradientColors(_)
extractGradientColors(tokens) ==
    IF tokens = <<>> THEN <<>>
    ELSE LET c == Head(tokens)
             rest == extractGradientColors(Tail(tokens))
         IN IF c = Transparent \/ c = Named("transparent") THEN rest
            ELSE <<c>> \o rest

\* contextScores: weight of a keyword of the context string
contextScores(k) ==
    CASE k \in {"logo", "brand"} -> 5
      [] k \in {"primary", "cta"} -> 4
      [] k \in {"hero", "button"} -> 3
      [] k \in {"link", "header"} -> 2
      [] OTHER -> 1

RECURSIVE MaxWeight(_)
MaxWeight(ks) ==
    IF ks = {} THEN 1
    ELSE LET k == CHOOSE x \in ks : TRUE
             w == contextScores(k)
             m == MaxWeight(ks \ {k})
         IN IF w > m THEN w ELSE m

\* the "colored button" test of the scoring
IsColoredButton(el) ==
    /\ el.context \cap {"button", "btn", "cta"} # {}
    /\ el.bg \notin {Transparent, Named("transparent"), White, Black,
                     LightGray}

\* score of one element: the largest matching keyword weight, raised to 25
\* for a coloured button
ElementScore(el) ==
    LET s == MaxWeight(el.context)
    IN IF IsColoredButton(el) /\ ButtonBoost > s THEN ButtonBoost ELSE s

\* colorMap.set(normalized, existing) after count++ and score += s; colorMap
\* is kept as the sequence of its entries in insertion order
AddColor(map, color, s) ==
    LET n == normalizeColor(color)
        hit == {i \in 1..Len(map) : map[i].normalized = n}
    IN IF hit = {}
         THEN Append(map, [normalized |-> n, original |-> color, count |-> 1,
                           score |-> s])
         ELSE LET i == CHOOSE x \in hit : TRUE
              IN [map EXCEPT ![i] = [@ EXCEPT !.count = @ + 1,
                                              !.score = @ + s]]

RECURSIVE AddColors(_, _, _)
AddColors(map, colors, s) ==
    IF colors = <<>> THEN map
    ELSE AddColors(AddColor(map, Head(colors), s), Tail(colors), s)

\* the colours one element contributes: background, text, border, outline,
\* caret, text-decoration, fill and stroke, each split and filtered
allColors(el) ==
    extractColorsFromValue(<<el.bg>>) \o extractColorsFromValue(<<el.text>>)
    \o extractColorsFromValue(el.border)
    \o extractColorsFromValue(<<el.outline>>)
    \o extractColorsFromValue(<<el.caret>>)
    \o extractColorsFromValue(<<el.textDecoration>>)
    \o extractColorsFromValue(<<el.fill>>)
    \o extractColorsFromValue(<<el.stroke>>)

\* elements.forEach: hidden elements are skipped; shadow colours count with
\* score 1, the other colours with the element's score
RECURSIVE ScanElements(_, _)
ScanElements(map, els) ==
    IF els = <<>> THEN map
    ELSE LET el == Head(els)
         IN IF el.hidden THEN ScanElements(map, Tail(els))
            ELSE ScanElements(
                   AddColors(AddColors(map, extractGradientColors(el.shadow),
                                       1),
                             allColors(el), ElementScore(el)),
                   Tail(els))

\* a bug the threshold could have: no minimum of 3
thresholdNoFloor(total) == total \div 100

\* "Math.max(3, Math.floor(totalElements * 0.01))"
threshold(total) ==
    IF total \div 100 > MinThreshold THEN total \div 100 ELSE MinThreshold

\* a bug the structural filter could have: the score is not looked at
isStructuralColorByUsage(data, total) == data.count * 100 > 40 * total

\* isStructuralColor: used on more than 40% of the elements with a score
\* below 1.2 times the count
isStructuralColor(data, total) ==
    \/ data.original \in {Transparent, Named("transparent")}
    \/ /\ data.count * 100 > 40 * total
       /\ data.score * 10 < data.count * 12

\* the square of deltaE; 999 squared when either value is not "#rrggbb"
deltaENever(c1, c2) == 999 * 999
deltaESquared(c1, c2) ==
    IF c1.fmt # "hex" \/ c2.fmt # "hex" THEN 999 * 999
    ELSE (c1.r - c2.r) * (c1.r - c2.r) + (c1.g - c2.g) * (c1.g - c2.g)
         + (c1.b - c2.b) * (c1.b - c2.b)

\* "data.score > 20 ? high : data.score > 5 ? medium : low"
Confidence(score) ==
    IF score > HighScore THEN "high"
    ELSE IF score > MediumScore THEN "medium" ELSE "low"

\* .filter(threshold, structural).map(entry)
RECURSIVE FilterMap(_, _)
FilterMap(map, total) ==
    IF map = <<>> THEN <<>>
    ELSE LET d == Head(map)
             rest == FilterMap(Tail(map), total)
         IN IF d.count < threshold(total) \/ isStructuralColor(d, total)
              THEN rest
              ELSE <<[color |-> d.original, normalized |-> d.normalized,
                      count |-> d.count, confidence |-> Confidence(d.score)]>>
                   \o rest

\* ".sort((a, b) => b.count - a.count)": stable, by count descending
RECURSIVE InsertByCount(_, _)
InsertByCount(sorted, x) ==
    IF sorted = <<>> THEN <<x>>
    ELSE IF Head(sorted).count >= x.count
           THEN <<Head(sorted)>> \o InsertByCount(Tail(sorted), x)
           ELSE <<x>> \o sorted

RECURSIVE SortByCount(_)
SortByCount(s) ==
    IF s = <<>> THEN <<>>
    ELSE InsertByCount(SortByCount(SubSeq(s, 1, Len(s) - 1)), s[Len(s)])

\* the entries of pal at the positions of the set idx, in palette order
RECURSIVE Picked(_, _, _)
Picked(pal, idx, i) ==
    IF i > Len(pal) THEN <<>>
    ELSE (IF i \in idx THEN <<pal[i]>> ELSE <<>>) \o Picked(pal, idx, i + 1)

\* a bug the dedup could have: the last variant of the group is kept
BestOfLast(similar) == similar[Len(similar)]

\* "similar.sort((a, b) => b.count - a.count)[0]"
BestOf(similar) == Head(SortByCount(similar))

\* perceptual dedup: walking the sorted palette, an entry absorbs every later
\* unmerged entry closer than 15, and the group's entry with the highest
\* count is kept
RECURSIVE Dedup(_, _, _)
Dedup(pal, index, merged) ==
    IF index > Len(pal) THEN <<>>
    ELSE IF index \in merged THEN Dedup(pal, index + 1, merged)
    ELSE LET near == {i \in (index + 1)..Len(pal) :
                        /\ i \notin merged
                        /\ deltaESquared(pal[index].normalized,
                                         pal[i].normalized)
                             < DeltaEThreshold * DeltaEThreshold}
             similar == <<pal[index]>> \o Picked(pal, near, 1)
         IN <<BestOf(similar)>> \o Dedup(pal, index + 1, merged \cup near)

\* colorMap after the loop over the elements
ColorMap(els) == ScanElements(<<>>, els)

\* the filtered palette, sorted by count
SortedPalette(map, total) == SortByCount(FilterMap(map, total))

\* the palette extractColors returns for a page of total elements, of which
\* els are the ones that are not skipped as hidden by their position
ExtractColorsOf(els, total) ==
    Dedup(SortedPalette(ColorMap(els), total), 1, {})

\* the palette extractColors returns for a page
ExtractColors(els) == ExtractColorsOf(els, Len(els))

\* elements of the pages handed to extractColors; border, outline, caret and
\* text-decoration colours follow the text colour, fill is black and stroke
\* is "none", as computed styles report them
Element(ctx, bg, text, hidden) ==
    [context |-> ctx, hidden |-> hidden, bg |-> bg, text |-> text,
     border |-> <<text>>, outline |-> text, caret |-> text,
     textDecoration |-> text, fill |-> Black, stroke |-> Named("none"),
     shadow |-> <<>>]

Indigo == Rgb(99, 102, 241)
IndigoNear == Rgb(101, 104, 243)
\* closer than 15 to IndigoNear, farther than 15 from Indigo
IndigoFar == Rgb(111, 112, 249)
Shadowed(el, shadow) == [el EXCEPT !.shadow = shadow]

ElementKinds ==
    { Element({"button", "btn", "primary"}, Indigo, White, FALSE),
      Element({"header"}, White, Black, FALSE),
      Element({"cta", "link"}, IndigoNear, White, FALSE),
      Element({}, Transparent, Black, FALSE),
      Element({"nav"}, White, IndigoNear, FALSE),
      Element({"hero"}, Indigo, White, TRUE),
      Element({"footer"}, Transparent, IndigoFar, FALSE),
      Shadowed(Element({"link"}, Transparent, Indigo, FALSE),
               <<Transparent, Rgba(0, 0, 0, 10)>>) }

\* numbers of further elements of the document that are display: none
HiddenCounts == {0, 400}

RECURSIVE SeqsUpTo(_, _)
SeqsUpTo(S, n) ==
    IF n = 0 THEN {<<>>}
    ELSE LET shorter == SeqsUpTo(S, n - 1)
         IN shorter \cup {Append(s, x) : s \in {t \in shorter : Len(t) = n - 1},
                                         x \in S}

Pages == SeqsUpTo(ElementKinds, MaxElements) \ {<<>>}

NoResult == <<>>

\* cpage holds the elements in document order; ctotal is
\* document.querySelectorAll("*").length
ColorsInit ==
    /\ cpc = "ready"
    /\ cpage \in Pages
    /\ ctotal \in {Len(cpage) + h : h \in HiddenCounts}
    /\ cmap = <<>> /\ cpalette = <<>>
    /\ cresult = NoResult

\* elements.forEach(...): colorMap is filled
ScanColors ==
    /\ cpc = "ready"
    /\ cmap' = ColorMap(cpage)
    /\ cpc' = "scanned"
    /\ UNCHANGED <<cpage, ctotal, cpalette, cresult>>

\* threshold, filter, map and sort
FilterColors ==
    /\ cpc = "scanned"
    /\ cpalette' = SortedPalette(cmap, ctotal)
    /\ cpc' = "sorted"
    /\ UNCHANGED <<cpage, ctotal, cmap, cresult>>

\* perceptual dedup and return
ExtractColorsRun ==
    /\ cpc = "sorted"
    /\ cresult' = Dedup(cpalette, 1, {})
    /\ cpc' = "done"
    /\ UNCHANGED <<cpage, ctotal, cmap, cpalette>>

ColorsOnly == UNCHANGED <<mainVars, palVars, techVars, callVars>>

ColorsNext ==
    \/ ScanColors /\ ColorsOnly
    \/ FilterColors /\ ColorsOnly
    \/ ExtractColorsRun /\ ColorsOnly

InitColors == MainIdle /\ ColorsInit /\ PalIdle /\ TechIdle /\ CallIdle

SpecColors == InitColors /\ [][ColorsNext]_vars

(***************************************************************************)
(* Claims about extractColors (SpecColors)                                 *)
(***************************************************************************)
\* C9: every non-transparent, non-white, non-black background colour of a
\* (visible) element whose context contains "button", "btn" or "cta" is in
\* the palette extractColors returns, with confidence "high", however many
\* elements use it.
ButtonColorsSurface ==
    cpc = "done" =>
      \A i \in 1..Len(cpage) :
        ( /\ ~cpage[i].hidden
          /\ cpage[i].context \cap {"button", "btn", "cta"} # {}
          /\ cpage[i].bg \notin {Transparent, White, Black} )
        => \E j \in 1..Len(cresult) :
             /\ cresult[j].normalized = Hex(cpage[i].bg.r, cpage[i].bg.g,
                                            cpage[i].bg.b)
             /\ cresult[j].confidence = "high"

\* whether sub is obtained from full by leaving entries out
RECURSIVE IsSubList(_, _)
IsSubList(sub, full) ==
    IF sub = <<>> THEN TRUE
    ELSE IF full = <<>> THEN FALSE
    ELSE IF Head(sub) = Head(full) THEN IsSubList(Tail(sub), Tail(full))
    ELSE IsSubList(sub, Tail(full))

\* C11: perceptual dedup never enlarges the palette: what it returns is a
\* sub-list of the count-sorted palette it was given; and the entry with the
\* highest count, the first one of that palette, is its first entry.
DedupKeepsMostFrequent ==
    cpc = "done" =>
      /\ Len(cresult) <= Len(cpalette)
      /\ IsSubList(cresult, cpalette)
      /\ cpalette # <<>> =>
           /\ cresult # <<>>
           /\ cresult[1] = cpalette[1]
           /\ \A i \in 1..Len(cpalette) :
                cpalette[i].count <= cresult[1].count

\* a palette in which the most frequent colour has absorbed a near variant
DedupKeepsMostFrequentWitness ==
    /\ cpc = "done"
    /\ Len(cresult) < Len(cpalette)
    /\ deltaESquared(cpalette[1].normalized, cpalette[2].normalized)
         < DeltaEThreshold * DeltaEThreshold
    /\ cpalette[2].count < cpalette[1].count

InPalette(pal, normalized) ==
    \E j \in 1..Len(pal) : pal[j].normalized = normalized

\* usage above 40% of the elements with a score below 1.2 times the count
UsedEverywhereUnscored(d, total) ==
    d.count * 100 > 40 * total /\ d.score * 10 < d.count * 12

\* C12: of the colours that reach the inclusion threshold, the filter drops
\* exactly those whose count exceeds 40% of the element count while their
\* score is below 1.2 times their count; so a colour used that widely with
\* score 1 per occurrence is dropped and one with score 4 or more per
\* occurrence is kept.
StructuralFilterExact ==
    cpc \in {"sorted", "done"} =>
      \A i \in 1..Len(cmap) :
        LET d == cmap[i]
        IN /\ InPalette(cpalette, d.normalized) =>
                ~UsedEverywhereUnscored(d, ctotal)
           /\ d.count >= threshold(ctotal) =>
                /\ UsedEverywhereUnscored(d, ctotal) =>
                     ~InPalette(cpalette, d.normalized)
                /\ ~UsedEverywhereUnscored(d, ctotal) =>
                     InPalette(cpalette, d.normalized)
                /\ d.count * 100 >= 50 * ctotal /\ d.score = d.count =>
                     ~InPalette(cpalette, d.normalized)
                /\ d.count * 100 >= 50 * ctotal /\ d.score >= 4 * d.count =>
                     InPalette(cpalette, d.normalized)

\* one colour on half of the elements or more is dropped with score 1 per
\* occurrence while another one is kept with 4 or more per occurrence
StructuralFilterExactWitness ==
    /\ cpc = "sorted"
    /\ \E i \in 1..Len(cmap) :
         /\ cmap[i].count >= threshold(ctotal)
         /\ cmap[i].count * 100 >= 50 * ctotal
         /\ cmap[i].score = cmap[i].count
         /\ ~InPalette(cpalette, cmap[i].normalized)
    /\ \E i \in 1..Len(cmap) :
         /\ cmap[i].count * 100 >= 50 * ctotal
         /\ cmap[i].score >= 4 * cmap[i].count
         /\ InPalette(cpalette, cmap[i].normalized)

\* C20: the inclusion threshold is at least 3 and does not decrease when the
\* element count grows (stated for neighbouring counts, which gives it for
\* all pairs), and no colour with a count below 3 or below 1% of the element
\* count, rounded down, is in the palette extractColors returns.
ThresholdMonotone ==
    /\ \A n \in 0..MaxTotal :
         /\ threshold(n) >= 3
         /\ threshold(n) <= threshold(n + 1)
    /\ \A n \in 0..ctotal : threshold(n) <= threshold(ctotal)
    /\ \A j \in 1..Len(cpalette) :
         cpalette[j].count >= 3 /\ cpalette[j].count >= ctotal \div 100
    /\ \A j \in 1..Len(cresult) :
         cresult[j].count >= 3 /\ cresult[j].count >= ctotal \div 100

\* a page of more than 400 elements on which a colour counted 3 times, which
\* is no structural colour, stays out of the palette while another is in it
ThresholdMonotoneWitness ==
    /\ cpc = "done"
    /\ ctotal >= 400
    /\ cresult # <<>>
    /\ \E i \in 1..Len(cmap) :
         /\ cmap[i].count = 3
         /\ ~InPalette(cresult, cmap[i].normalized)
         /\ ~InPalette(cpalette, cmap[i].normalized)

(***************************************************************************)
(* extractBranding: the palette merges                                     *)
(***************************************************************************)
\* a palette entry as the merges handle it; source is None for the entries
\* of the passive scan
Entry(c, src) == [color |-> c.color, normalized |-> c.normalized,
                  count |-> c.count, confidence |-> c.confidence,
                  source |-> src]

RECURSIVE Tagged(_, _)
Tagged(pal, src) ==
    IF pal = <<>> THEN <<>>
    ELSE <<Entry(Head(pal), src)>> \o Tagged(Tail(pal), src)

\* the normalization written out in the hover/focus merge: rgb()/rgba() text
\* becomes "#rrggbb", other text is lower-cased
MergeNormalize(color) ==
    IF color.fmt \in {"rgb", "rgba"} THEN Hex(color.r, color.g, color.b)
    ELSE color

\* "colors.palette.some((c) => c.color === color)"
HoverIsDuplicate(pal, color) == \E i \in 1..Len(pal) : pal[i].color = color

\* hoverFocusColors.forEach(({ color }) => ...)
RECURSIVE MergeHoverFocus(_, _)
MergeHoverFocus(pal, colors) ==
    IF colors = <<>> THEN pal
    ELSE LET color == Head(colors)
         IN IF HoverIsDuplicate(pal, color)
              THEN MergeHoverFocus(pal, Tail(colors))
              ELSE MergeHoverFocus(
                     Append(pal, [color |-> color,
                                  normalized |-> MergeNormalize(color),
                                  count |-> 1, confidence |-> "medium",
                                  source |-> "hover/focus"]),
                     Tail(colors))

\* "existingColor.normalized === darkColor.normalized" (and the same test of
\* the mobile merge)
ModeIsDuplicate(pal, c) ==
    \E i \in 1..Len(pal) : pal[i].normalized = c.normalized

\* a merge the passes could have: the re-extracted palette takes the place of
\* colors.palette
MergeModeFresh(pal, extra, src) == Tagged(extra, src)

\* the dark-mode and the mobile merge: entries of the re-extracted palette
\* whose normalized value is new are appended with their source
RECURSIVE MergeMode(_, _, _)
MergeMode(pal, extra, src) ==
    IF extra = <<>> THEN pal
    ELSE IF ModeIsDuplicate(pal, Head(extra))
           THEN MergeMode(pal, Tail(extra), src)
           ELSE MergeMode(Append(pal, Entry(Head(extra), src)), Tail(extra),
                          src)

\* palettes extractColors can return
PaletteInputs == {ExtractColors(p) : p \in Pages}

\* the page as it renders under the dark theme or the mobile viewport
RerenderedPages ==
    { <<>>,
      [i \in 1..3 |-> Element({"header"}, Black, White, FALSE)],
      [i \in 1..3 |-> Element({"button", "btn", "primary"}, Indigo, White,
                              FALSE)],
      [i \in 1..3 |-> Element({"nav"}, White, Rgb(20, 30, 40), FALSE)] }

ReextractedPalettes == {ExtractColors(p) : p \in RerenderedPages}

\* colours the prober can report: computed colour values
HoverTokens == {Rgba(255, 255, 255, 50), White, Rgb(20, 30, 40)}
HoverLists == SeqsUpTo(HoverTokens, MaxHoverColors)

PaletteInit ==
    /\ mpc = "hover_merge"
    /\ mopts \in {[url |-> "valid", darkMode |-> dm, mobile |-> mb] :
                    dm \in BOOLEAN, mb \in BOOLEAN}
    /\ passivePalette \in {Tagged(p, None) : p \in PaletteInputs}
    /\ palette = passivePalette
    /\ hoverList \in HoverLists

PaletteHoverMerge ==
    /\ mpc = "hover_merge"
    /\ palette' = MergeHoverFocus(palette, hoverList)
    /\ mpc' = AfterPass("hoverMerge", mopts)
    /\ UNCHANGED <<mopts, passivePalette, hoverList>>

\* extractColors under the dark theme, then the merge
PaletteDarkMerge ==
    /\ mpc = "dark_apply"
    /\ \E darkModeColors \in ReextractedPalettes :
         palette' = MergeMode(palette, Tagged(darkModeColors, None),
                              "dark-mode")
    /\ mpc' = AfterPass("dark", mopts)
    /\ UNCHANGED <<mopts, passivePalette, hoverList>>

\* extractColors under the mobile viewport, then the merge
PaletteMobileMerge ==
    /\ mpc = "mobile_apply"
    /\ \E mobileColors \in ReextractedPalettes :
         palette' = MergeMode(palette, Tagged(mobileColors, None), "mobile")
    /\ mpc' = AfterPass("mobile", mopts)
    /\ UNCHANGED <<mopts, passivePalette, hoverList>>

PaletteOnly == UNCHANGED <<mainVars, colorVars, techVars, callVars>>

PaletteNext ==
    \/ PaletteHoverMerge /\ PaletteOnly
    \/ PaletteDarkMerge /\ PaletteOnly
    \/ PaletteMobileMerge /\ PaletteOnly

InitPalette == MainIdle /\ ColorIdle /\ PaletteInit /\ TechIdle /\ CallIdle

SpecPalette == InitPalette /\ [][PaletteNext]_vars

(***************************************************************************)
(* Claims about the palette merges (SpecPalette)                           *)
(***************************************************************************)
\* C10: in colors.palette of the report no two entries have the same
\* normalized value.
PaletteNormalizedUnique ==
    mpc = "report" =>
      \A i \in 1..Len(palette), j \in 1..Len(palette) :
        i # j => palette[i].normalized # palette[j].normalized

(***************************************************************************)
(* scanTechStack                                                           *)
(*                                                                         *)
(* Text is a sequence of characters; the empty sequence stands for null    *)
(* and for "", which the code treats alike wherever it tests a value for   *)
(* truthiness.                                                             *)
(***************************************************************************)
\* String.prototype.includes
Includes(s, sub) ==
    \E i \in 0..(Len(s) - Len(sub)) : SubSeq(s, i + 1, i + Len(sub)) = sub

Star == "*"

\* value.split('*')
RECURSIVE SplitAt(_, _)
SplitAt(s, acc) ==
    IF s = <<>> THEN <<acc>>
    ELSE IF Head(s) = Star THEN <<acc>> \o SplitAt(Tail(s), <<>>)
         ELSE SplitAt(Tail(s), Append(acc, Head(s)))

Split(s) == SplitAt(s, <<>>)

RECURSIVE InOrderFrom(_, _, _)
\* the parts occur one after the other, from position pos on
InOrderFrom(attr, parts, pos) ==
    IF parts = <<>> THEN TRUE
    ELSE \E i \in pos..(Len(attr) - Len(Head(parts)) + 1) :
           /\ SubSeq(attr, i, i + Len(Head(parts)) - 1) = Head(parts)
           /\ InOrderFrom(attr, Tail(parts), i + Len(Head(parts)))

\* a glob-like comparison, which the checks do not make
WildcardInOrder(attr, value) == InOrderFrom(attr, Split(value), 1)

\* the comparison shared by the script src and the link href checks
WildcardIncludes(attr, value) ==
    IF Includes(value, <<Star>>)
      THEN \A k \in 1..Len(Split(value)) : Includes(attr, Split(value)[k])
      ELSE Includes(attr, value)

NullAttribute == "<null>"
ElementTags ==
    {"main", "div", "body", "html", "header", "footer", "nav", "section"}

\* one pass of the loop over scanData.scripts for a tag check
ScriptCheck(tagCheck, scan) ==
    \E i \in 1..Len(scan.scripts) :
      LET script == scan.scripts[i]
      IN \/ /\ tagCheck.attribute = "src" /\ script.src # <<>>
            /\ tagCheck.value # <<>>
            /\ WildcardIncludes(script.src, tagCheck.value)
         \/ /\ tagCheck.attribute = "id" /\ script.id # <<>>
            /\ tagCheck.value # <<>>
            /\ Includes(script.id, tagCheck.value)
         \/ /\ tagCheck.attribute = NullAttribute /\ tagCheck.value # <<>>
            /\ script.content # <<>>
            /\ Includes(script.content, tagCheck.value)

LinkCheck(tagCheck, scan) ==
    \E i \in 1..Len(scan.links) :
      /\ tagCheck.attribute = "href" /\ scan.links[i].href # <<>>
      /\ tagCheck.value # <<>>
      /\ WildcardIncludes(scan.links[i].href, tagCheck.value)

MetaCheck(tagCheck, scan) ==
    \E i \in 1..Len(scan.metas) :
      /\ scan.metas[i].name \in {"generator", "platform"}
      /\ tagCheck.value # <<>> /\ scan.metas[i].content # <<>>
      /\ Includes(scan.metas[i].content, tagCheck.value)

ElementCheck(tagCheck, scan) ==
    \E i \in 1..Len(scan.allElements) :
      LET el == scan.allElements[i]
      IN /\ el.tag = tagCheck.tag /\ tagCheck.attribute # NullAttribute
         /\ tagCheck.value # <<>>
         /\ tagCheck.attribute \in DOMAIN el.attributes
         /\ el.attributes[tagCheck.attribute] # <<>>
         /\ Includes(el.attributes[tagCheck.attribute], tagCheck.value)

TagCheckMatches(tagCheck, scan) ==
    \/ tagCheck.tag = "script" /\ ScriptCheck(tagCheck, scan)
    \/ tagCheck.tag = "link" /\ LinkCheck(tagCheck, scan)
    \/ tagCheck.tag = "meta" /\ MetaCheck(tagCheck, scan)
    \/ tagCheck.tag \in ElementTags /\ ElementCheck(tagCheck, scan)

toLowerCase(h) ==
    CASE h = "X-Powered-By" -> "x-powered-by"
      [] h = "Skip" -> "skip"
      [] h = "Jump" -> "jump"
      [] h \in {"Ad", "AD"} -> "ad"
      [] h = "Sign" -> "sign"
      [] h = "Up" -> "up"
      [] OTHER -> h

HeaderCheckMatches(headerCheck, responseHeaders) ==
    LET key == toLowerCase(headerCheck.header)
    IN /\ key \in DOMAIN responseHeaders
       /\ responseHeaders[key] # <<>>
       /\ Includes(responseHeaders[key], headerCheck.value)

\* the raw-HTML fallback
RawHtmlMatches(tagCheck, htmlContent) ==
    /\ tagCheck.value # <<>>
    /\ Includes(htmlContent, tagCheck.value)
    /\ tagCheck.attribute \in {NullAttribute, "src", "href"}

\* the value of "matched" after the checks of one ingredient
RuleMatches(ingredient, scan, responseHeaders) ==
    \/ \E k \in 1..Len(ingredient.tags) :
         TagCheckMatches(ingredient.tags[k], scan)
    \/ \E k \in 1..Len(ingredient.headers) :
         HeaderCheckMatches(ingredient.headers[k], responseHeaders)
    \/ \E k \in 1..Len(ingredient.tags) :
         RawHtmlMatches(ingredient.tags[k], scan.htmlContent)

\* ---- the scanned page ----
Script(src, id, content) == [src |-> src, id |-> id, content |-> content]
Link(href) == [href |-> href]
Meta(name, content) == [name |-> name, content |-> content]
DomElement(tag, attributes) == [tag |-> tag, attributes |-> attributes]

NoHeaders == [h \in {} |-> <<>>]
PoweredBy == [h \in {"x-powered-by"} |-> <<"e">>]

TechPage(scripts, links, metas, els, headers) ==
    [scripts |-> scripts, links |-> links, metas |-> metas,
     allElements |-> els, responseHeaders |-> headers]

TechPages ==
    { TechPage(<<>>, <<>>, <<>>, <<>>, NoHeaders),
      TechPage(<<Script(<<"b", "/", "a">>, <<>>, <<>>)>>, <<>>, <<>>, <<>>,
               NoHeaders),
      TechPage(<<Script(<<>>, <<>>, <<"w">>)>>, <<Link(<<"a", "b">>)>>,
               <<>>, <<>>, PoweredBy),
      TechPage(<<>>, <<>>, <<Meta("generator", <<"w", "p">>)>>,
               <<DomElement("div", [n \in {"data-x"} |-> <<"w">>])>>,
               NoHeaders) }

RECURSIVE Serialize(_, _)
Serialize(items, field) ==
    IF items = <<>> THEN <<>>
    ELSE <<"<">> \o Head(items)[field] \o <<">">>
           \o Serialize(Tail(items), field)

\* page.content(): the markup, in which every attribute value and every
\* inline script occurs
PageContent(p) ==
    Serialize(p.scripts, "src") \o Serialize(p.scripts, "content")
      \o Serialize(p.links, "href") \o Serialize(p.metas, "content")

\* the page.evaluate that collects scripts, links, metas and elements
ScanData(p) ==
    [scripts |-> p.scripts, links |-> p.links, metas |-> p.metas,
     allElements |-> p.allElements, htmlContent |-> PageContent(p)]

NoScanData ==
    [scripts |-> <<>>, links |-> <<>>, metas |-> <<>>, allElements |-> <<>>,
     htmlContent |-> <<>>]

\* ---- the rule store ----
InlineCategories ==
    << "ads", "analytics", "auth", "blogs", "builders", "cdn", "cms",
       "compliance", "docs", "ecommerce", "fonts", "frameworks", "hosts",
       "libraries", "monitoring", "notifications", "payments", "search",
       "security", "servers", "social", "storage", "widgets", "wikis",
       "other" >>

TagCheck(tag, attribute, value) ==
    [tag |-> tag, attribute |-> attribute, value |-> value]
HeaderCheck(header, value) == [header |-> header, value |-> value]

\* what reading and parsing a directory entry gives: "unreadable" is a
\* readFileSync that throws, "malformed" a JSON.parse that throws,
\* "nochecks" valid JSON without a checks object; json is whether the name
\* ends in ".json"
RuleFile(json, state, tags, headers) ==
    [json |-> json, state |-> state, tags |-> tags, headers |-> headers]

FileContents ==
    { RuleFile(TRUE, "unreadable", <<>>, <<>>),
      RuleFile(TRUE, "malformed", <<>>, <<>>),
      RuleFile(TRUE, "nochecks", <<>>, <<>>),
      RuleFile(FALSE, "ok", <<>>, <<>>),
      RuleFile(TRUE, "ok",
               <<TagCheck("script", "src", <<"a", Star, "b">>)>>, <<>>),
      RuleFile(TRUE, "ok", <<TagCheck("meta", "content", <<"w">>)>>,
               <<HeaderCheck("X-Powered-By", <<>>)>>),
      RuleFile(TRUE, "ok",
               <<TagCheck("div", "data-x", <<"w">>),
                 TagCheck("script", NullAttribute, <<"w">>)>>, <<>>) }

\* file names of a directory, by position, as the pieces between and
\* including their ".json" parts: a.json, b.json, ... or a pair of names
\* that differ only in where the first ".json" stands
Json == ".json"
FileNames ==
    << <<"a", Json>>, <<"b", Json>>, <<"c", Json>>, <<"d", Json>>,
       <<"e", Json>> >>
TwinFileNames ==
    << <<Json, "a", Json>>, <<"a", Json, Json>>, <<"c", Json>>, <<"d", Json>>,
       <<"e", Json>> >>

RECURSIVE ReplaceFirst(_, _)
\* file.replace(part, ''): only the first occurrence is removed
ReplaceFirst(file, part) ==
    IF file = <<>> THEN <<>>
    ELSE IF Head(file) = part THEN Tail(file)
    ELSE <<Head(file)>> \o ReplaceFirst(Tail(file), part)

\* const ingredientId = file.replace('.json', '')
IngredientId(file) == ReplaceFirst(file, Json)

SomeNever(list, id) == FALSE
\* matches[category].some(m => m.id === ingredientId)
Some(list, id) == \E k \in 1..Len(list) : list[k] = id

Directory(exists, files) == [exists |-> exists, files |-> files]
MissingDirectory == Directory(FALSE, <<>>)

Directories ==
    {MissingDirectory}
      \cup {Directory(TRUE, fs) : fs \in SeqsUpTo(FileContents, MaxFiles)}

SmallDirectories ==
    { MissingDirectory,
      Directory(TRUE, <<RuleFile(TRUE, "malformed", <<>>, <<>>)>>),
      Directory(TRUE, <<RuleFile(TRUE, "ok", <<>>,
                                 <<HeaderCheck("x-powered-by", <<"e">>)>>)>>) }

\* categories.json: absent, not JSON, the JSON value null, or an object
\* with the given keys
CategoriesFiles ==
    { [state |-> "missing", keys |-> <<>>],
      [state |-> "unparsable", keys |-> <<>>],
      [state |-> "null", keys |-> <<>>],
      [state |-> "object", keys |-> <<"analytics", "cms">>],
      [state |-> "object", keys |-> <<"cms", "categories.json",
                                      "analytics">>] }

CategoryNames ==
    {InlineCategories[i] : i \in 1..Len(InlineCategories)}
      \cup {"categories.json"}

Stores ==
    { [categoriesJson |-> cj, analytics |-> d1, cms |-> d2, names |-> ns] :
        cj \in CategoriesFiles, d1 \in Directories, d2 \in SmallDirectories,
        ns \in {FileNames, TwinFileNames} }

\* readdirSync(join(ingredientsPath, category))
DirectoryOf(st, category) ==
    CASE category = "analytics" -> st.analytics
      [] category = "cms" -> st.cms
      [] OTHER -> MissingDirectory

\* .filter(f => f.endsWith('.json')), as positions in the directory
RECURSIVE JsonEntries(_, _)
JsonEntries(files, i) ==
    IF i > Len(files) THEN <<>>
    ELSE (IF files[i].json THEN <<i>> ELSE <<>>) \o JsonEntries(files, i + 1)

ingredientFiles(st, category) ==
    JsonEntries(DirectoryOf(st, category).files, 1)

NoCategories == [value |-> "object", keys |-> <<>>]
NoMatches == [c \in CategoryNames |-> <<>>]

\* whether the body of the per-file try block throws
FileThrows(file) == file.state \in {"unreadable", "malformed", "nochecks"}

TechInit ==
    /\ tpc = "categories"
    /\ store \in Stores
    /\ tpage \in TechPages
    /\ scanData = NoScanData
    /\ catIdx = 0 /\ fileIdx = 0
    /\ matches = NoMatches
    /\ categories = NoCategories
    /\ scanFailed = FALSE

\* try { categories = JSON.parse(readFileSync(...)) } catch { inline list }
LoadCategories ==
    /\ tpc = "categories"
    /\ categories' =
         IF store.categoriesJson.state \in {"missing", "unparsable"}
           THEN [value |-> "object", keys |-> InlineCategories]
           ELSE [value |-> store.categoriesJson.state,
                 keys |-> store.categoriesJson.keys]
    /\ tpc' = "scan"
    /\ UNCHANGED <<store, tpage, scanData, catIdx, fileIdx, matches,
                   scanFailed>>

\* page.content() and the page.evaluate collecting scanData
ScanPage ==
    /\ tpc = "scan"
    /\ scanData' = ScanData(tpage)
    /\ tpc' = "keys"
    /\ UNCHANGED <<store, tpage, catIdx, fileIdx, matches, categories,
                   scanFailed>>

\* Object.keys(categories), which throws a TypeError for null
ObjectKeys ==
    /\ tpc = "keys"
    /\ IF categories.value = "null"
         THEN /\ scanFailed' = TRUE /\ tpc' = "threw" /\ catIdx' = catIdx
         ELSE /\ scanFailed' = scanFailed /\ tpc' = "category"
              /\ catIdx' = 1
    /\ UNCHANGED <<store, tpage, scanData, fileIdx, matches, categories>>

\* a key that is skipped: "categories.json" itself, or a category whose
\* directory cannot be listed
CategorySkip ==
    /\ tpc = "category" /\ catIdx <= Len(categories.keys)
    /\ LET category == categories.keys[catIdx]
       IN \/ category = "categories.json"
          \/ ~DirectoryOf(store, category).exists
    /\ catIdx' = catIdx + 1
    /\ UNCHANGED <<tpc, store, tpage, scanData, fileIdx, matches, categories,
                   scanFailed>>

CategoryOpen ==
    /\ tpc = "category" /\ catIdx <= Len(categories.keys)
    /\ LET category == categories.keys[catIdx]
       IN /\ category # "categories.json"
          /\ DirectoryOf(store, category).exists
    /\ fileIdx' = 1
    /\ tpc' = "files"
    /\ UNCHANGED <<store, tpage, scanData, catIdx, matches, categories,
                   scanFailed>>

\* the body of "for (const file of ingredientFiles)" with its try/catch
IngredientFile ==
    /\ tpc = "files"
    /\ LET category == categories.keys[catIdx]
           files == ingredientFiles(store, category)
       IN /\ fileIdx <= Len(files)
          /\ LET file == DirectoryOf(store, category).files[files[fileIdx]]
                 ingredientId == IngredientId(store.names[files[fileIdx]])
                 matched ==
                   /\ ~FileThrows(file)
                   /\ RuleMatches(file, scanData, tpage.responseHeaders)
                 present == Some(matches[category], ingredientId)
             IN matches' =
                  IF matched /\ ~present
                    THEN [matches EXCEPT ![category] = Append(@, ingredientId)]
                    ELSE matches
    /\ fileIdx' = fileIdx + 1
    /\ UNCHANGED <<tpc, store, tpage, scanData, catIdx, categories, scanFailed>>

FilesDone ==
    /\ tpc = "files"
    /\ fileIdx > Len(ingredientFiles(store, categories.keys[catIdx]))
    /\ catIdx' = catIdx + 1
    /\ tpc' = "category"
    /\ UNCHANGED <<store, tpage, scanData, fileIdx, matches, categories,
                   scanFailed>>

\* return { matches, categories }
ScanReturn ==
    /\ tpc = "category" /\ catIdx > Len(categories.keys)
    /\ tpc' = "done"
    /\ UNCHANGED <<store, tpage, scanData, catIdx, fileIdx, matches, categories,
                   scanFailed>>

TechOnly == UNCHANGED <<mainVars, colorVars, palVars, callVars>>

TechNext ==
    \/ LoadCategories /\ TechOnly
    \/ ScanPage /\ TechOnly
    \/ ObjectKeys /\ TechOnly
    \/ CategorySkip /\ TechOnly
    \/ CategoryOpen /\ TechOnly
    \/ IngredientFile /\ TechOnly
    \/ FilesDone /\ TechOnly
    \/ ScanReturn /\ TechOnly

InitTech == MainIdle /\ ColorIdle /\ PalIdle /\ TechInit /\ CallIdle

SpecTech == InitTech /\ [][TechNext]_vars

(***************************************************************************)
(* Claims about scanTechStack (SpecTech)                                   *)
(***************************************************************************)
\* the ids a category reports, file by file: a rule file counts exactly when
\* it is a readable, well-formed .json entry whose own checks match
ReportsRule(category, i) ==
    LET file == DirectoryOf(store, category).files[i]
    IN /\ file.json /\ file.state = "ok"
       /\ RuleMatches(file, ScanData(tpage), tpage.responseHeaders)

IdsOf(category) ==
    {matches[category][k] : k \in 1..Len(matches[category])}

Listed(category) ==
    /\ category # "categories.json"
    /\ \E k \in 1..Len(categories.keys) : categories.keys[k] = category

\* C7: scanTechStack never fails because of the rule store: with
\* categories.json missing or unparsable the inline list is used, a category
\* without a directory contributes nothing, and every other rule file
\* contributes exactly what its own checks give, whatever the state of its
\* neighbours.
RuleStoreTolerated ==
    /\ ~scanFailed
    /\ tpc = "done" =>
         /\ store.categoriesJson.state \in {"missing", "unparsable"} =>
              categories.keys = InlineCategories
         /\ \A category \in CategoryNames :
              IF Listed(category) /\ DirectoryOf(store, category).exists
                THEN IdsOf(category) =
                       { IngredientId(store.names[i]) :
                           i \in { j \in 1..Len(DirectoryOf(store, category).files) :
                                     ReportsRule(category, j) } }
                ELSE matches[category] = <<>>

(***************************************************************************)
(* extractButtonStyles: the candidate filter (part_000 2516-2569).         *)
(* A candidate is what the filter reads of one element: how it is          *)
(* rendered, its bounding rect, its trimmed innerText as the words that    *)
(* split(' ') yields, whether the text holds a newline or tab, the class   *)
(* of an icon descendant, and the computed backgroundColor, border,        *)
(* borderWidth (the shorthand, one value per side that differs: top,       *)
(* right, bottom, left) and the backgroundColor of children[0].            *)
(***************************************************************************)
TransparentText == {"rgba(0, 0, 0, 0)", "transparent"}
Green == "rgb(0, 128, 0)"

\* rect.width === 0 || rect.height === 0 || display none || visibility
\* hidden; opacity '0'; transform matrix(0, 0, 0, 0, 0, 0)
isVisible(btn) == btn.rendered = "shown"

Words(words) == [words |-> words, multiline |-> FALSE]
MultiLine(words) == [words |-> words, multiline |-> TRUE]

RECURSIVE JoinedLength(_)
\* buttonText.split(' ').join('').length
JoinedLength(words) ==
    IF words = <<>> THEN 0 ELSE Len(Head(words)) + JoinedLength(Tail(words))

\* buttonText.toLowerCase().split(' ')
LowerWords(text) == [i \in 1..Len(text.words) |-> toLowerCase(text.words[i])]

\* the text checks of lines 2538-2545, in order
TextAllowed(text) ==
    LET textNoSpaces == JoinedLength(text.words)
    IN /\ ~(textNoSpaces > 0 /\ textNoSpaces < 2)
       /\ ~(textNoSpaces > 32)
       /\ ~text.multiline
       /\ LowerWords(text) # <<"ad">>
       /\ \A i \in 1..Len(text.words) : LowerWords(text)[i] # "skip"
       /\ \A i \in 1..Len(text.words) : LowerWords(text)[i] # "jump"

\* parseFloat(borderWidth): the leading number of the shorthand text
parseFloat(borderWidth) == IF borderWidth = <<>> THEN 0 ELSE Head(borderWidth)

hasBorder(btn) ==
    /\ btn.borderWidth # <<>>
    /\ parseFloat(btn.borderWidth) > 0
    /\ btn.border # "none"

hasBackground(bg) == bg # "" /\ bg \notin TransparentText

\* only children[0] is read, and only when the element has no background
childHasBackground(btn) ==
    /\ ~hasBackground(btn.backgroundColor)
    /\ btn.child # None
    /\ hasBackground(btn.child)

\* TRUE when the forEach body reaches buttonStyles.push for btn
ButtonKept(btn) ==
    /\ isVisible(btn)
    /\ ~(btn.width < 10 \/ btn.width > 600)
    /\ ~(btn.height < 25 \/ btn.height > 200)
    /\ ~(btn.height * 10 > btn.width * 12)      \* height / width > 1.2
    /\ ~(btn.width > 8 * btn.height)            \* width / height > 8
    /\ TextAllowed(btn.text)
    /\ btn.icon \notin {"material-icons", "material-symbols"}
    /\ ~(~hasBackground(btn.backgroundColor) /\ ~hasBorder(btn)
         /\ ~childHasBackground(btn))

Renderings == {"shown", "hidden", "opacity-0", "matrix-0"}
Widths == {9, 10, 40, 300, 600, 601, 700}
Heights == {24, 25, 40, 200, 201}
LongWord == "Subscribetoourweeklynewsletternow"
Texts ==
    { Words(<<>>), Words(<<"Sign", "Up">>), Words(<<"Skip", "to", "content">>),
      Words(<<"Jump", "in">>), Words(<<"Ad">>), Words(<<"x">>),
      Words(<<"Skipper">>), Words(<<LongWord>>),
      MultiLine(<<"Sign", "Up">>) }
Icons == {None, "material-icons", "material-symbols"}
\* computed border / borderWidth pairs: no border, a 1px border on every
\* side, a 2px border on the bottom side only, a 2px border on the top only
Borders ==
    { [border |-> "0px none rgb(0, 0, 0)", borderWidth |-> <<0>>],
      [border |-> "1px solid rgb(0, 0, 0)", borderWidth |-> <<1>>],
      [border |-> "", borderWidth |-> <<0, 0, 2>>],
      [border |-> "", borderWidth |-> <<2, 0, 0>>] }
Backgrounds == {"rgba(0, 0, 0, 0)", Green}
FirstChildren == {None, "rgba(0, 0, 0, 0)", Green}

Candidates ==
    { [rendered |-> rd, width |-> w, height |-> h, text |-> t, icon |-> ic,
       backgroundColor |-> bg, border |-> bd.border,
       borderWidth |-> bd.borderWidth, child |-> ch] :
        rd \in Renderings, w \in Widths, h \in Heights, t \in Texts,
        ic \in Icons, bg \in Backgrounds, bd \in Borders,
        ch \in FirstChildren }

ButtonsInit == callPc = "ready" /\ callArg \in Candidates /\ callRet = <<>>

\* the forEach body for one candidate: buttonStyles afterwards
ButtonFilter ==
    /\ callPc = "ready"
    /\ callPc' = "done"
    /\ callRet' = IF ButtonKept(callArg) THEN <<callArg>> ELSE <<>>
    /\ UNCHANGED callArg

CallOnly == UNCHANGED <<mainVars, colorVars, palVars, techVars>>

InitButtons == MainIdle /\ ColorIdle /\ PalIdle /\ TechIdle /\ ButtonsInit
ButtonsNext ==
    \/ ButtonFilter /\ CallOnly
SpecButtons == InitButtons /\ [][ButtonsNext]_vars

HasNonZeroBorder(btn) == \E i \in 1..Len(btn.borderWidth) : btn.borderWidth[i] > 0

(* C13: the button candidate filter retains a visible candidate if and only
   if its width is in [10,600], its height is in [25,200], height/width <=
   1.2, width/height <= 8, its text without spaces is empty or 2 to 32
   characters long, single-line, not 'ad', without a 'skip' or 'jump' word,
   it has no material icon child, and it has a non-transparent background
   or a non-zero border or a first child with a non-transparent
   background. *)
ButtonFilterExact ==
    (callPc = "done" /\ isVisible(callArg)) =>
        LET btn == callArg
            n == JoinedLength(btn.text.words)
            lower == LowerWords(btn.text)
        IN (callRet # <<>>) <=>
             /\ btn.width >= 10 /\ btn.width <= 600
             /\ btn.height >= 25 /\ btn.height <= 200
             /\ btn.height * 10 <= btn.width * 12
             /\ btn.width <= 8 * btn.height
             /\ (n = 0 \/ (n >= 2 /\ n <= 32))
             /\ ~btn.text.multiline
             /\ lower # <<"ad">>
             /\ \A i \in 1..Len(lower) : lower[i] \notin {"skip", "jump"}
             /\ btn.icon = None
             /\ \/ btn.backgroundColor \notin TransparentText
                \/ HasNonZeroBorder(btn)
                \/ (btn.child # None /\ btn.child \notin TransparentText)

(***************************************************************************)
(* extractButtonStyles: dedup and cap (part_000 2660-2672), and the        *)
(* dark-mode merge of extractBranding (1214-1244).  A button entry is its  *)
(* default-state backgroundColor (colour texts are numbered) and its       *)
(* source tag.                                                             *)
(***************************************************************************)
MaxButtons == 17
ButtonCap == 15

Button(bg) == [backgroundColor |-> bg, source |-> None]

RECURSIVE UniqueButtons(_, _)
\* the loop over buttonStyles with the seen Set
UniqueButtons(buttonStyles, seen) ==
    IF buttonStyles = <<>> THEN <<>>
    ELSE LET key == Head(buttonStyles).backgroundColor
         IN IF key \in seen
            THEN UniqueButtons(Tail(buttonStyles), seen)
            ELSE <<Head(buttonStyles)>>
                   \o UniqueButtons(Tail(buttonStyles), seen \cup {key})

\* slice(0, 15)
Slice(list, n) == SubSeq(list, 1, IF Len(list) < n THEN Len(list) ELSE n)

\* what extractButtonStyles returns for the kept candidates buttonStyles
extractButtonStyles(buttonStyles) ==
    Slice(UniqueButtons(buttonStyles, {}), ButtonCap)

\* buttons.push(...darkModeButtons.map(btn => ({...btn, source})))
PushDarkButtons(buttons, darkModeButtons) ==
    buttons \o [i \in 1..Len(darkModeButtons) |->
                  [darkModeButtons[i] EXCEPT !.source = "dark-mode"]]

\* kept candidates of a page: n buttons, all different, in pairs of equal
\* background, or cycling through three backgrounds
ButtonStyles ==
    { [i \in 1..n |-> Button(i)] : n \in 0..MaxButtons } \cup
    { [i \in 1..n |-> Button((i + 1) \div 2)] : n \in 0..MaxButtons } \cup
    { [i \in 1..n |-> Button(i % 3)] : n \in 0..MaxButtons }

ButtonListInit ==
    /\ callPc = "ready"
    /\ callArg \in [light : ButtonStyles, dark : ButtonStyles,
                    darkMode : BOOLEAN]
    /\ callRet = <<>>

\* line 921: the passive batch's extractButtonStyles(page)
ButtonsExtract ==
    /\ callPc = "ready"
    /\ callPc' = "extracted"
    /\ callRet' = extractButtonStyles(callArg.light)
    /\ UNCHANGED callArg

\* lines 1191-1244: options.darkMode re-extracts and pushes
ButtonsDarkMerge ==
    /\ callPc = "extracted" /\ callArg.darkMode
    /\ callPc' = "done"
    /\ callRet' = PushDarkButtons(callRet, extractButtonStyles(callArg.dark))
    /\ UNCHANGED callArg

\* line 1304: components.buttons of the report
ButtonsReport ==
    /\ callPc = "extracted" /\ ~callArg.darkMode
    /\ callPc' = "done"
    /\ UNCHANGED <<callArg, callRet>>

InitButtonList == MainIdle /\ ColorIdle /\ PalIdle /\ TechIdle /\ ButtonListInit
ButtonListNext ==
    \/ ButtonsExtract /\ CallOnly
    \/ ButtonsDarkMerge /\ CallOnly
    \/ ButtonsReport /\ CallOnly
SpecButtonList == InitButtonList /\ [][ButtonListNext]_vars

(* C14: for every combination of options, darkMode included,
   components.buttons of the report has at most 15 entries and no two
   entries have the same default-state backgroundColor. *)
ButtonsUniqueCapped ==
    callPc = "done" =>
        /\ Len(callRet) <= ButtonCap
        /\ \A i, j \in 1..Len(callRet) :
             callRet[i].backgroundColor = callRet[j].backgroundColor => i = j

(***************************************************************************)
(* extractAccessibilityAudit (part_000 3924-4155).  The page is what the   *)
(* audit reads of it: the number of distinct text/background combinations  *)
(* that fail AA contrast, the img elements (alt text and role attribute),  *)
(* the number of form fields without label, aria-label or placeholder,     *)
(* and the heading levels in document order.                               *)
(***************************************************************************)
MaxContrast == 7
MaxImages == 2
MaxUnlabelled == 2
ErrorPenalty == 15
WarningPenalty == 5

\* an issue; the message is kept as what it says: <<what, from, to>>, with
\* the two heading levels for a skipped level and 0, 0 otherwise
IssueAbout(type, severity, message) ==
    [type |-> type, severity |-> severity, message |-> message]
Issue(type, severity) == IssueAbout(type, severity, <<type, 0, 0>>)
NoSummary == [totalIssues |-> 0, errors |-> 0, warnings |-> 0, score |-> 0,
              passesMinimumAA |-> FALSE]
NewAudit == [missingAltText |-> 0, missingLabels |-> 0,
             missingHeadings |-> FALSE, issues |-> <<>>,
             summary |-> NoSummary]

\* JavaScript values, tagged with their type
JsString(s) == [type |-> "string", val |-> s]
JsBoolean(b) == [type |-> "boolean", val |-> IF b THEN "true" ELSE "false"]
JsNull == [type |-> "null", val |-> "null"]
\* !v: the negation of v's truthiness
JsNot(v) ==
    JsBoolean(\/ v.type = "null"
              \/ (v.type = "string" /\ v.val = "")
              \/ (v.type = "boolean" /\ v.val = "false"))
\* a === b: no conversion, values of different type are never equal
StrictEquals(a, b) == a.type = b.type /\ a.val = b.val
Truthy(v) == JsNot(v).val = "false"

Img(alt, role) == [alt |-> alt, role |-> role]
\* !img.alt && !img.getAttribute('role') === 'presentation'
AltMissing(img) ==
    /\ Truthy(JsNot(JsString(img.alt)))
    /\ StrictEquals(JsNot(img.role), JsString("presentation"))

\* list.filter(Test).length
CountIf(list, Test(_)) == Len(SelectSeq(list, Test))

RECURSIVE Repeat(_, _)
Repeat(x, n) == IF n = 0 THEN <<>> ELSE <<x>> \o Repeat(x, n - 1)

Skipped(previousLevel, level) ==
    IssueAbout("headings", "warning", <<"skipped", previousLevel, level>>)
MissingH1 == IssueAbout("headings", "warning", <<"missing-h1", 0, 0>>)

RECURSIVE SkippedLevelsFromTop(_, _)
\* the walk without the test for the first heading
SkippedLevelsFromTop(headings, previousLevel) ==
    IF headings = <<>> THEN <<>>
    ELSE LET level == Head(headings)
         IN (IF level > previousLevel + 1
             THEN <<Skipped(previousLevel, level)>> ELSE <<>>)
            \o SkippedLevelsFromTop(Tail(headings), level)

RECURSIVE SkippedLevels(_, _)
\* one warning per heading whose level skips past previousLevel + 1
SkippedLevels(headings, previousLevel) ==
    IF headings = <<>> THEN <<>>
    ELSE LET level == Head(headings)
         IN (IF level > previousLevel + 1 /\ previousLevel # 0
             THEN <<Skipped(previousLevel, level)>> ELSE <<>>)
            \o SkippedLevels(Tail(headings), level)

HasH1(headings) == \E i \in 1..Len(headings) : headings[i] = 1

Max(a, b) == IF a >= b THEN a ELSE b
ScoreUnclamped(errors, warnings) ==
    100 - errors * ErrorPenalty - warnings * WarningPenalty
\* Math.max(0, 100 - (errors * 15) - (warnings * 5))
Score(errors, warnings) ==
    Max(0, 100 - errors * ErrorPenalty - warnings * WarningPenalty)

IsError(i) == i.severity = "error"
IsWarning(i) == i.severity = "warning"

Summary(issues) ==
    LET errors == CountIf(issues, IsError)
        warnings == CountIf(issues, IsWarning)
    IN [totalIssues |-> Len(issues), errors |-> errors,
        warnings |-> warnings, score |-> Score(errors, warnings),
        passesMinimumAA |-> errors = 0]

ImgKinds == { Img(alt, role) : alt \in {"", "logo"},
                               role \in {JsNull, JsString("presentation")} }
HeadingLists == { <<>>, <<1>>, <<1, 2>>, <<1, 3>>, <<2>>, <<2, 4, 6>> }
AuditPages ==
    [contrastFails : 0..MaxContrast, images : SeqsUpTo(ImgKinds, MaxImages),
     unlabelled : 0..MaxUnlabelled, headings : HeadingLists]

AuditInit == callPc = "ready" /\ callArg \in AuditPages /\ callRet = NewAudit

\* lines 3977-4038: one error per failing colour combination
AuditContrast ==
    /\ callPc = "ready"
    /\ callPc' = "images"
    /\ callRet' = [callRet EXCEPT !.issues =
                     @ \o Repeat(Issue("contrast", "error"),
                                 callArg.contrastFails)]
    /\ UNCHANGED callArg

\* lines 4040-4054
AuditImages ==
    /\ callPc = "images"
    /\ callPc' = "forms"
    /\ LET missingAltText == CountIf(callArg.images, AltMissing)
       IN callRet' = [callRet EXCEPT
                        !.missingAltText = missingAltText,
                        !.issues = IF missingAltText > 0
                                   THEN @ \o <<Issue("images", "error")>>
                                   ELSE @]
    /\ UNCHANGED callArg

\* lines 4056-4074
AuditForms ==
    /\ callPc = "forms"
    /\ callPc' = "headings"
    /\ callRet' = [callRet EXCEPT
                     !.missingLabels = callArg.unlabelled,
                     !.issues = IF callArg.unlabelled > 0
                                THEN @ \o <<Issue("forms", "warning")>>
                                ELSE @]
    /\ UNCHANGED callArg

\* lines 4076-4106
AuditHeadings ==
    /\ callPc = "headings"
    /\ callPc' = "summary"
    /\ callRet' = [callRet EXCEPT
                     !.missingHeadings = ~HasH1(callArg.headings),
                     !.issues = @ \o SkippedLevels(callArg.headings, 0)
                                  \o (IF ~HasH1(callArg.headings)
                                      THEN <<MissingH1>>
                                      ELSE <<>>)]
    /\ UNCHANGED callArg

\* lines 4137-4148
AuditSummary ==
    /\ callPc = "summary"
    /\ callPc' = "done"
    /\ callRet' = [callRet EXCEPT !.summary = Summary(callRet.issues)]
    /\ UNCHANGED callArg

InitAudit == MainIdle /\ ColorIdle /\ PalIdle /\ TechIdle /\ AuditInit
AuditNext ==
    \/ AuditContrast /\ CallOnly
    \/ AuditImages /\ CallOnly
    \/ AuditForms /\ CallOnly
    \/ AuditHeadings /\ CallOnly
    \/ AuditSummary /\ CallOnly
SpecAudit == InitAudit /\ [][AuditNext]_vars

ImagesWithoutAlt(images) ==
    Cardinality({ i \in 1..Len(images) :
                    images[i].alt = ""
                    /\ images[i].role # JsString("presentation") })
IssuesOf(issues, type, severity) ==
    Cardinality({ i \in 1..Len(issues) : issues[i] = Issue(type, severity) })

(* C15: missingAltText equals the number of img elements that have no alt
   text and whose role is not 'presentation'; whenever that number is
   greater than 0 exactly one error-severity 'images' issue is recorded and
   summary.passesMinimumAA is false. *)
MissingAltCounted ==
    callPc = "done" =>
        /\ callRet.missingAltText = ImagesWithoutAlt(callArg.images)
        /\ ImagesWithoutAlt(callArg.images) > 0 =>
              /\ IssuesOf(callRet.issues, "images", "error") = 1
              /\ ~callRet.summary.passesMinimumAA

SeverityCount(issues, severity) ==
    Cardinality({ i \in 1..Len(issues) : issues[i].severity = severity })

(* C16: score = max(0, 100 - 15*errors - 5*warnings), where errors and
   warnings are the numbers of recorded issues of each severity; hence
   0 <= score <= 100, and passesMinimumAA is true exactly when there is no
   error. *)
ScoreClamped ==
    callPc = "done" =>
        LET errors == SeverityCount(callRet.issues, "error")
            warnings == SeverityCount(callRet.issues, "warning")
            raw == 100 - 15 * errors - 5 * warnings
            s == callRet.summary
        IN /\ s.errors = errors /\ s.warnings = warnings
           /\ s.score = (IF raw > 0 THEN raw ELSE 0)
           /\ s.score >= 0 /\ s.score <= 100
           /\ s.passesMinimumAA <=> (errors = 0)

\* an audit whose penalties exceed 100, and so whose score is clamped to 0
ScoreClampedWitness ==
    /\ callPc = "done"
    /\ callRet.summary.errors * 15 + callRet.summary.warnings * 5 > 100
    /\ callRet.summary.warnings > 0
    /\ callRet.summary.score = 0
    /\ ~callRet.summary.passesMinimumAA

(***************************************************************************)
(* extractBranding: canvas-only detection (part_000 1311-1327).  The page  *)
(* is its canvas elements, each with whether getContext("webgl") or        *)
(* getContext("webgl2") yields a context, and the length of                *)
(* document.body.textContent.trim().                                       *)
(***************************************************************************)
MaxCanvases == 5
ManyCanvases == 3
RealContentLength == 200

hasRealContentFrom(length) == length >= RealContentLength
\* document.body.textContent.trim().length > 200
hasRealContent(length) == length > RealContentLength
hasManyCanvases(canvases) == Len(canvases) > ManyCanvases
hasWebGL(canvases) == \E i \in 1..Len(canvases) : canvases[i]

isCanvasOnly(p) ==
    hasManyCanvases(p.canvases) /\ hasWebGL(p.canvases)
    /\ ~hasRealContent(p.textLength)

\* the report's optional fields: the ones present, and their values
PlainResult == [present |-> {}, note |-> "", isCanvasOnly |-> FALSE]
CanvasNote == "This website uses canvas/WebGL rendering"

TextLengths == {0, 50, 199, 200, 201, 5000}
CanvasPages ==
    [canvases : SeqsUpTo(BOOLEAN, MaxCanvases), textLength : TextLengths]

CanvasInit == callPc = "ready" /\ callArg \in CanvasPages /\ callRet = PlainResult

\* lines 1311-1327
CanvasDetect ==
    /\ callPc = "ready"
    /\ callPc' = "done"
    /\ callRet' = IF isCanvasOnly(callArg)
                  THEN [present |-> {"note", "isCanvasOnly"},
                        note |-> CanvasNote, isCanvasOnly |-> TRUE]
                  ELSE callRet
    /\ UNCHANGED callArg

InitCanvas == MainIdle /\ ColorIdle /\ PalIdle /\ TechIdle /\ CanvasInit
CanvasNext ==
    \/ CanvasDetect /\ CallOnly
SpecCanvas == InitCanvas /\ [][CanvasNext]_vars

WebGLCount(canvases) == Cardinality({ i \in 1..Len(canvases) : canvases[i] })
Flagged(result) ==
    /\ result.present = {"note", "isCanvasOnly"}
    /\ result.isCanvasOnly /\ result.note # ""

(* C17: the report carries isCanvasOnly = true together with a note exactly
   when the page has more than 3 canvas elements, at least one of them
   yields a WebGL context, and the body text is under 200 characters; in
   every other case neither isCanvasOnly nor note is present. *)
CanvasOnlyUnder200 ==
    callPc = "done" =>
        IF /\ Len(callArg.canvases) > 3
           /\ WebGLCount(callArg.canvases) >= 1
           /\ callArg.textLength < 200
        THEN Flagged(callRet)
        ELSE callRet.present = {}

(* C17, amended: as above, with a body text of at most 200 characters. *)
CanvasOnlyUpTo200 ==
    callPc = "done" =>
        IF /\ Len(callArg.canvases) > 3
           /\ WebGLCount(callArg.canvases) >= 1
           /\ callArg.textLength <= 200
        THEN Flagged(callRet)
        ELSE callRet.present = {}

\* 5 canvases, exactly one WebGL-backed, 50 characters of text: flagged
CanvasOnlyUpTo200Witness ==
    /\ callPc = "done"
    /\ Len(callArg.canvases) = 5 /\ WebGLCount(callArg.canvases) = 1
    /\ callArg.textLength = 50
    /\ Flagged(callRet)

(***************************************************************************)
(* scanTechStack: one TechMatch per rule file, ids unique per category     *)
(***************************************************************************)
Reporting(category) ==
    { j \in 1..Len(DirectoryOf(store, category).files) :
        ReportsRule(category, j) }

(* C18: for each rule file at most one TechMatch is produced per page,
   however many of its tag, header or raw-HTML checks match, and within
   every category of techStack no two matches have the same id. *)
TechMatchOncePerRule ==
    \A category \in CategoryNames :
        /\ Len(matches[category]) <= Cardinality(Reporting(category))
        /\ \A k, l \in 1..Len(matches[category]) :
             matches[category][k] = matches[category][l] => k = l

\* two rule files whose names give the same id both match, the first of
\* them by a tag check and by the raw-HTML check: one TechMatch is listed
TechMatchOncePerRuleWitness ==
    /\ tpc = "done" /\ Listed("analytics")
    /\ Reporting("analytics") = {1, 2}
    /\ IngredientId(store.names[1]) = IngredientId(store.names[2])
    /\ Len(matches["analytics"]) = 1
    /\ LET file == store.analytics.files[1]
       IN /\ \E k \in 1..Len(file.tags) : TagCheckMatches(file.tags[k], scanData)
          /\ \E k \in 1..Len(file.tags) :
               RawHtmlMatches(file.tags[k], scanData.htmlContent)

(***************************************************************************)
(* normalizeColor applied twice (part_000 1511-1541).  The tokens are the  *)
(* colour texts that reach it: computed rgb()/rgba() values, and the       *)
(* author's text of CSS custom properties (1640-1661, 1931), which keeps   *)
(* its case.                                                               *)
(***************************************************************************)
Channels == {0, 1, 99, 255}
Hues == {0, 30, 60, 120, 210, 300, 359}
Percents == {0, 50, 100}
LowerTokens ==
    { Rgb(r, g, b) : r \in Channels, g \in Channels, b \in Channels } \cup
    { Rgba(r, 0, b, 50) : r \in Channels, b \in Channels } \cup
    { Hex(r, g, b) : r \in Channels, g \in Channels, b \in Channels } \cup
    { Hsl(h, s, l) : h \in Hues, s \in Percents, l \in Percents } \cup
    { Named("red"), Named("rebeccapurple") }
ColorTokens == LowerTokens \cup { UpperCase(c) : c \in LowerTokens }

NormalizeInit == callPc = "ready" /\ callArg \in ColorTokens /\ callRet = <<>>

Normalize ==
    /\ callPc = "ready"
    /\ callPc' = "normalized"
    /\ callRet' = <<normalizeColor(callArg)>>
    /\ UNCHANGED callArg

NormalizeAgain ==
    /\ callPc = "normalized"
    /\ callPc' = "done"
    /\ callRet' = Append(callRet, normalizeColor(callRet[1]))
    /\ UNCHANGED callArg

InitNormalize == MainIdle /\ ColorIdle /\ PalIdle /\ TechIdle /\ NormalizeInit
NormalizeNext ==
    \/ Normalize /\ CallOnly
    \/ NormalizeAgain /\ CallOnly
SpecNormalize == InitNormalize /\ [][NormalizeNext]_vars

(* C19: normalizeColor is idempotent: for every colour token c,
   normalizeColor(normalizeColor(c)) = normalizeColor(c); in particular a
   lowercase #rrggbb value is returned unchanged. *)
NormalizeIdempotent ==
    /\ callPc = "done" => callRet[2] = callRet[1]
    /\ (callPc = "normalized" /\ callArg.fmt = "hex") => callRet[1] = callArg

(***************************************************************************)
(* extractTypography: element sampling, dedup key and sort (part_000       *)
(* 2146-2225).  An element is what the loop reads of it: whether it is     *)
(* rendered, its tag, whether it counts as a button (role or class), has   *)
(* an href, and its computed font family, size, weight, letter spacing,    *)
(* text transform and line height.                                         *)
(***************************************************************************)
TextEl(tag, button, href, family, size, weight, letterSpacing, textTransform,
       lineHeight, shown) ==
    [tag |-> tag, button |-> button, href |-> href, family |-> family,
     size |-> size, weight |-> weight, letterSpacing |-> letterSpacing,
     textTransform |-> textTransform, lineHeight |-> lineHeight,
     shown |-> shown]

\* the context label of lines 2172-2186
TypoContext(el) ==
    IF el.tag = "BUTTON" \/ el.button THEN "button"
    ELSE IF el.tag = "A" /\ el.href THEN "link"
    ELSE IF el.size <= 14 THEN "caption"
    ELSE "heading-1"

\* `${family}|${size}|${weight}|${context}|${letterSpacing}|${textTransform}`
TypoKey(el) ==
    <<el.family, el.size, el.weight, TypoContext(el), el.letterSpacing,
      el.textTransform>>

\* the value stored for an element (the fields derived from the key, and
\* the line height, which is not part of the key)
TypoStyle(el) ==
    [context |-> TypoContext(el), family |-> el.family, size |-> el.size,
     weight |-> el.weight, lineHeight |-> el.lineHeight,
     spacing |-> IF el.letterSpacing # "normal" THEN el.letterSpacing
                 ELSE "null",
     transform |-> IF el.textTransform # "none" THEN el.textTransform
                   ELSE "null"]

\* the Map seen, as its entries in insertion order
SeenHasNever(seen, key) == FALSE
\* seen.has(key)
SeenHas(seen, key) == \E i \in 1..Len(seen) : seen[i].key = key
\* seen.set(key, value): an existing key keeps its place and gets the value
SeenSet(seen, key, value) ==
    IF \E i \in 1..Len(seen) : seen[i].key = key
    THEN [i \in 1..Len(seen) |->
            IF seen[i].key = key THEN [key |-> key, value |-> value]
            ELSE seen[i]]
    ELSE Append(seen, [key |-> key, value |-> value])

RECURSIVE SampleElements(_, _)
\* els.forEach(...)
SampleElements(seen, els) ==
    IF els = <<>> THEN seen
    ELSE LET el == Head(els)
         IN IF ~el.shown \/ SeenHas(seen, TypoKey(el))
            THEN SampleElements(seen, Tail(els))
            ELSE SampleElements(SeenSet(seen, TypoKey(el), TypoStyle(el)),
                                Tail(els))

RECURSIVE InsertBySize(_, _)
\* stable insertion for the comparator bSize - aSize
InsertBySize(sorted, style) ==
    IF sorted = <<>> THEN <<style>>
    ELSE IF Head(sorted).size >= style.size
         THEN <<Head(sorted)>> \o InsertBySize(Tail(sorted), style)
         ELSE <<style>> \o sorted

RECURSIVE SortBySize(_)
SortBySize(styles) ==
    IF styles = <<>> THEN <<>>
    ELSE InsertBySize(SortBySize(SubSeq(styles, 1, Len(styles) - 1)),
                      styles[Len(styles)])

TextElKinds ==
    { TextEl("H1", FALSE, FALSE, "Inter", 32, 700, "normal", "none", "1.20", TRUE),
      TextEl("H1", FALSE, FALSE, "Inter", 32, 700, "normal", "none", "1.50", TRUE),
      TextEl("P", FALSE, FALSE, "Inter", 16, 400, "normal", "none", "1.50", TRUE),
      TextEl("P", FALSE, FALSE, "Inter", 16, 400, "normal", "uppercase", "1.50", TRUE),
      TextEl("SPAN", FALSE, FALSE, "Inter", 12, 400, "1px", "none", "null", TRUE),
      TextEl("A", FALSE, TRUE, "Inter", 16, 400, "normal", "none", "1.40", TRUE),
      TextEl("BUTTON", FALSE, FALSE, "Inter", 16, 400, "normal", "none", "1.00", TRUE),
      TextEl("SPAN", TRUE, FALSE, "Inter", 16, 400, "normal", "none", "1.10", TRUE),
      TextEl("H2", FALSE, FALSE, "Georgia", 48, 400, "normal", "none", "1.10", FALSE) }

TypoInit ==
    /\ callPc = "ready"
    /\ callArg \in SeqsUpTo(TextElKinds, MaxElements)
    /\ callRet = <<>>

\* lines 2146-2215
TypoSample ==
    /\ callPc = "ready"
    /\ callPc' = "sampled"
    /\ callRet' = SampleElements(<<>>, callArg)
    /\ UNCHANGED callArg

\* lines 2217-2225: Array.from(seen.values()).sort(...)
TypoSort ==
    /\ callPc = "sampled"
    /\ callPc' = "done"
    /\ callRet' = SortBySize([i \in 1..Len(callRet) |-> callRet[i].value])
    /\ UNCHANGED callArg

InitTypo == MainIdle /\ ColorIdle /\ PalIdle /\ TechIdle /\ TypoInit
TypoNext ==
    \/ TypoSample /\ CallOnly
    \/ TypoSort /\ CallOnly
SpecTypo == InitTypo /\ [][TypoNext]_vars

StyleTuple(style) ==
    <<style.family, style.size, style.weight, style.context, style.spacing,
      style.transform>>
ElTuple(el) ==
    <<el.family, el.size, el.weight, TypoContext(el),
      IF el.letterSpacing = "normal" THEN "null" ELSE el.letterSpacing,
      IF el.textTransform = "none" THEN "null" ELSE el.textTransform>>
FirstWith(els, tuple) ==
    CHOOSE i \in 1..Len(els) :
        /\ els[i].shown /\ ElTuple(els[i]) = tuple
        /\ \A j \in 1..(i - 1) : ~(els[j].shown /\ ElTuple(els[j]) = tuple)

(* C21: extractTypography returns at most one style entry per (family,
   size, weight, context, letterSpacing, textTransform) tuple however many
   elements share it, the entry carries the first-seen element's values,
   and the styles are ordered by pixel size descending. *)
TypographyDeduped ==
    callPc = "done" =>
        /\ \A i, j \in 1..Len(callRet) :
             StyleTuple(callRet[i]) = StyleTuple(callRet[j]) => i = j
        /\ \A k \in 1..Len(callArg) :
             callArg[k].shown =>
               \E i \in 1..Len(callRet) :
                  StyleTuple(callRet[i]) = ElTuple(callArg[k])
        /\ \A i \in 1..Len(callRet) :
             /\ \E k \in 1..Len(callArg) :
                  callArg[k].shown /\ ElTuple(callArg[k]) = StyleTuple(callRet[i])
             /\ callRet[i].lineHeight =
                  callArg[FirstWith(callArg, StyleTuple(callRet[i]))].lineHeight
        /\ \A i, j \in 1..Len(callRet) :
             i < j => callRet[i].size >= callRet[j].size

\* two headings share the tuple and differ in line height, after a smaller
\* paragraph: one heading entry, with the first heading's line height, first
TypographyDedupedWitness ==
    /\ callPc = "done"
    /\ Len(callArg) = 3 /\ Len(callRet) = 2
    /\ callArg[1].size < callArg[2].size
    /\ ElTuple(callArg[2]) = ElTuple(callArg[3])
    /\ callArg[2].lineHeight # callArg[3].lineHeight
    /\ callRet[1].lineHeight = callArg[2].lineHeight

(***************************************************************************)
(* extractBranding: who closes the browser (part_000 688-753, 1329-1339).  *)
(* The awaited calls of the function in order; callArg says whether a      *)
(* browser was passed in and which call, if any, rejects.  The browser is  *)
(* "none" before a launch, "open", or "closed".                            *)
(***************************************************************************)
\* the calls before the try block (lines 702-751)
SetupCalls == <<"launch", "newContext", "addInitScript", "newPage">>
\* the phases inside the try block (lines 753-1327)
TryCalls == <<"navigation", "passive", "prober", "darkMode", "mobile",
              "canvas">>
BrandingCalls == SetupCalls \o TryCalls
CallNames == {BrandingCalls[i] : i \in 1..Len(BrandingCalls)}

\* whether the call stands inside try { ... } catch
InsideTry(call) == \E i \in 1..Len(TryCalls) : TryCalls[i] = call

OwnInit ==
    /\ callPc = "running"
    /\ callArg \in [passedBrowser : BOOLEAN, failAt : CallNames \cup {None}]
    /\ callRet = [browser |-> IF callArg.passedBrowser THEN "open" ELSE "none",
                  next |-> 1, closedHere |-> FALSE]

ownBrowser == ~callArg.passedBrowser

\* "if (ownBrowser) browser = await chromium.launch(...)"; with a passed
\* browser nothing is awaited and nothing can reject
OwnLaunch ==
    /\ callPc = "running" /\ callRet.next = 1
    /\ IF ownBrowser /\ callArg.failAt = "launch"
       THEN callPc' = "thrown" /\ UNCHANGED callRet
       ELSE /\ callPc' = callPc
            /\ callRet' = [callRet EXCEPT !.browser = "open", !.next = 2]
    /\ UNCHANGED callArg

\* an awaited call that resolves
OwnCallResolves ==
    /\ callPc = "running"
    /\ callRet.next > 1 /\ callRet.next <= Len(BrandingCalls)
    /\ callArg.failAt # BrandingCalls[callRet.next]
    /\ callRet' = [callRet EXCEPT !.next = @ + 1]
    /\ UNCHANGED <<callPc, callArg>>

\* a call before the try block rejects: the rejection leaves the function
OwnSetupRejects ==
    /\ callPc = "running"
    /\ callRet.next > 1 /\ callRet.next <= Len(BrandingCalls)
    /\ callArg.failAt = BrandingCalls[callRet.next]
    /\ ~InsideTry(BrandingCalls[callRet.next])
    /\ callPc' = "thrown"
    /\ UNCHANGED <<callArg, callRet>>

\* a call inside the try block rejects: catch closes an own browser and
\* rethrows (lines 1332-1338)
OwnCatch ==
    /\ callPc = "running"
    /\ callRet.next > 1 /\ callRet.next <= Len(BrandingCalls)
    /\ callArg.failAt = BrandingCalls[callRet.next]
    /\ InsideTry(BrandingCalls[callRet.next])
    /\ callPc' = "thrown"
    /\ callRet' = IF ownBrowser
                  THEN [callRet EXCEPT !.browser = "closed",
                                       !.closedHere = TRUE]
                  ELSE callRet
    /\ UNCHANGED callArg

\* "if (ownBrowser) await browser.close(); return result" (1329-1331)
OwnReturn ==
    /\ callPc = "running" /\ callRet.next > Len(BrandingCalls)
    /\ callPc' = "returned"
    /\ callRet' = IF ownBrowser
                  THEN [callRet EXCEPT !.browser = "closed",
                                       !.closedHere = TRUE]
                  ELSE callRet
    /\ UNCHANGED callArg

InitOwn == MainIdle /\ ColorIdle /\ PalIdle /\ TechIdle /\ OwnInit
OwnNext ==
    \/ OwnLaunch /\ CallOnly
    \/ OwnCallResolves /\ CallOnly
    \/ OwnSetupRejects /\ CallOnly
    \/ OwnCatch /\ CallOnly
    \/ OwnReturn /\ CallOnly
SpecOwn == InitOwn /\ [][OwnNext]_vars

(* C22: extractBranding closes the browser on its exit paths if and only if
   it launched the browser itself: a passed browser is never closed by it,
   and a self-launched browser is closed before the function returns or
   throws on every path after the launch, including a failure while
   creating the context, injecting the init script or opening the page. *)
OwnBrowserReleased ==
    /\ callArg.passedBrowser => (~callRet.closedHere /\ callRet.browser = "open")
    /\ (callPc \in {"returned", "thrown"} /\ ownBrowser
        /\ callRet.browser # "none") => callRet.browser = "closed"

(***************************************************************************)
(* extractBranding: interaction state left behind by the prober            *)
(***************************************************************************)
\* the passes after the prober that read computed styles or the DOM
LaterReads == {"dark_extract", "mobile_extract", "canvas"}

(* C23: after the prober has finished and before any later pass reads
   computed styles (dark-mode or mobile re-extraction, canvas detection),
   the interaction state of the page is neutral again: the mouse is not
   over a probed element and no probed element is focused. *)
InteractionStateNeutral ==
    pc \in LaterReads =>
        /\ page.mouse.at # "element"
        /\ page.focus = 0

(***************************************************************************)
(* extractBranding: interactive element sampling (part_000 992-1031).      *)
(* The elements page.$$ returns, in document order, each with the result   *)
(* of the visibility test of lines 1020-1029.                              *)
(***************************************************************************)
MaxProbed == 22

Run(visible, n) == [i \in 1..n |-> visible]
\* hidden elements first, visible elements first, or alternating
InteractiveLists ==
    { Run(FALSE, k) \o Run(TRUE, m) : k, m \in 0..MaxProbed } \cup
    { Run(TRUE, m) \o Run(FALSE, k) : k, m \in 0..MaxProbed } \cup
    { [i \in 1..n |-> i % 2 = 0] : n \in 0..MaxProbed }

SampleInit ==
    /\ callPc = "ready"
    /\ callArg \in { l \in InteractiveLists : Len(l) <= MaxProbed }
    /\ callRet = [sampled |-> 0, next |-> 0, hovered |-> {}]

\* const sampled = interactiveElements.slice(0, 20)
SampleSlice ==
    /\ callPc = "ready"
    /\ callPc' = "loop"
    /\ callRet' = [callRet EXCEPT !.sampled = Sampled(Len(callArg)),
                                  !.next = 1]
    /\ UNCHANGED callArg

\* "if (!isVisible) continue"
SampleSkip ==
    /\ callPc = "loop" /\ callRet.next <= callRet.sampled
    /\ ~callArg[callRet.next]
    /\ callRet' = [callRet EXCEPT !.next = @ + 1]
    /\ UNCHANGED <<callPc, callArg>>

\* beforeState, element.hover, afterHover (and the focus attempt)
SampleHover ==
    /\ callPc = "loop" /\ callRet.next <= callRet.sampled
    /\ callArg[callRet.next]
    /\ callRet' = [callRet EXCEPT !.next = @ + 1,
                                  !.hovered = @ \cup {callRet.next}]
    /\ UNCHANGED <<callPc, callArg>>

SampleEnd ==
    /\ callPc = "loop" /\ callRet.next > callRet.sampled
    /\ callPc' = "done"
    /\ UNCHANGED <<callArg, callRet>>

InitSample == MainIdle /\ ColorIdle /\ PalIdle /\ TechIdle /\ SampleInit
SampleNext ==
    \/ SampleSlice /\ CallOnly
    \/ SampleSkip /\ CallOnly
    \/ SampleHover /\ CallOnly
    \/ SampleEnd /\ CallOnly
SpecSample == InitSample /\ [][SampleNext]_vars

VisibleIn(els, n) == { i \in 1..Len(els) : i <= n /\ els[i] }
Min(a, b) == IF a <= b THEN a ELSE b

(* C24: at most 20 elements are hovered per run, an element that fails the
   visibility check is never hovered or focused, and invisible elements do
   not count against the limit of 20: a page with V visible interactive
   elements gets min(20, V) of them probed. *)
ProbesTwentyVisible ==
    /\ Cardinality(callRet.hovered) <= 20
    /\ \A i \in callRet.hovered : callArg[i]
    /\ callPc = "done" =>
         Cardinality(callRet.hovered) =
           Min(20, Cardinality(VisibleIn(callArg, Len(callArg))))

(* C24, amended: at most 20 elements are hovered per run, an element that
   fails the visibility check is never hovered or focused, and the sample
   is the first 20 interactive elements in document order, visible or not:
   exactly the visible ones among them are probed. *)
ProbesVisibleOfFirstTwenty ==
    /\ Cardinality(callRet.hovered) <= 20
    /\ \A i \in callRet.hovered : callArg[i]
    /\ callPc = "done" => callRet.hovered = VisibleIn(callArg, 20)

\* 22 elements, the first two hidden: elements 3..20 are probed, the visible
\* elements 21 and 22 are not
ProbesVisibleOfFirstTwentyWitness ==
    /\ callPc = "done"
    /\ Len(callArg) = 22 /\ ~callArg[1] /\ ~callArg[2]
    /\ \A i \in 3..22 : callArg[i]
    /\ callRet.hovered = 3..20

(***************************************************************************)
(* extractColors: no near-duplicate pair in the returned palette           *)
(***************************************************************************)
IsHex6(c) == c.fmt = "hex"
RgbDistanceSquared(c1, c2) ==
    (c1.r - c2.r) * (c1.r - c2.r) + (c1.g - c2.g) * (c1.g - c2.g)
      + (c1.b - c2.b) * (c1.b - c2.b)
NearPair(list) ==
    \E i, j \in 1..Len(list) :
        /\ i # j
        /\ IsHex6(list[i].normalized) /\ IsHex6(list[j].normalized)
        /\ RgbDistanceSquared(list[i].normalized, list[j].normalized) < 225

(* C25: in the palette returned by extractColors every two distinct entries
   whose normalized values are 6-digit hex colours are at Euclidean RGB
   distance of at least 15 (squared distance >= 225). *)
NoNearDuplicates ==
    cpc = "done" => ~NearPair(cresult)

\* the sorted palette holds a pair closer than 15, and the returned palette
\* still has two or more entries
NoNearDuplicatesWitness ==
    /\ cpc = "done"
    /\ NearPair(cpalette)
    /\ Len(cresult) >= 2
    /\ Len(cresult) < Len(cpalette)
    /\ \E i, j \in 1..Len(cresult) :
         /\ cresult[i].normalized = Hex(99, 102, 241)
         /\ cresult[j].normalized = Hex(111, 112, 249)

(***************************************************************************)
(* scanTechStack: the src / href comparison (part_000 322-331, 353-361),   *)
(* applied to one attribute value and one check value.  Texts are          *)
(* sequences of characters.                                                *)
(***************************************************************************)
MaxPattern == 3

AttrValues == SeqsUpTo({"a", "b", "/"}, MaxPattern) \ {<<>>}
CheckValues == SeqsUpTo({"a", "b", Star}, MaxPattern) \ {<<>>}

WildcardInit ==
    /\ callPc = "ready"
    /\ callArg \in [attr : AttrValues, value : CheckValues,
                    tag : {"script", "link"}]
    /\ callRet = <<>>

\* the script check with attribute 'src' on a page with one script
WildcardScript ==
    /\ callPc = "ready" /\ callArg.tag = "script"
    /\ callPc' = "done"
    /\ callRet' = <<ScriptCheck(TagCheck("script", "src", callArg.value),
                                [scripts |-> <<Script(callArg.attr, <<>>, <<>>)>>])>>
    /\ UNCHANGED callArg

\* the link check with attribute 'href' on a page with one link
WildcardLink ==
    /\ callPc = "ready" /\ callArg.tag = "link"
    /\ callPc' = "done"
    /\ callRet' = <<LinkCheck(TagCheck("link", "href", callArg.value),
                              [links |-> <<Link(callArg.attr)>>])>>
    /\ UNCHANGED callArg

InitWildcard == MainIdle /\ ColorIdle /\ PalIdle /\ TechIdle /\ WildcardInit
WildcardNext ==
    \/ WildcardScript /\ CallOnly
    \/ WildcardLink /\ CallOnly
SpecWildcard == InitWildcard /\ [][WildcardNext]_vars

\* text is attr with some characters before and after removed
IsSubstring(text, attr) ==
    \E lo \in 1..(Len(attr) + 1), hi \in 0..Len(attr) :
        lo <= hi + 1 /\ text = [i \in 1..(hi - lo + 1) |-> attr[lo + i - 1]]

\* the literal segments of a value: its maximal runs without '*'
Segments(value) ==
    { SubSeq(value, run[1], run[2]) :
        run \in { r \in (1..(Len(value) + 1)) \X (0..Len(value)) :
                    /\ r[1] <= r[2] + 1
                    /\ \A i \in r[1]..r[2] : value[i] # Star
                    /\ (r[1] = 1 \/ value[r[1] - 1] = Star)
                    /\ (r[2] = Len(value) \/ value[r[2] + 1] = Star) } }

(* C26: a script src or link href check whose value contains '*' matches if
   and only if every literal segment obtained by splitting the value at '*'
   occurs as a substring of the attribute value, in whatever order; a value
   without '*' matches if and only if it occurs as a substring of the
   attribute value. *)
WildcardOrderAgnostic ==
    callPc = "done" =>
        IF \E i \in 1..Len(callArg.value) : callArg.value[i] = Star
        THEN callRet[1] <=>
               \A seg \in Segments(callArg.value) : IsSubstring(seg, callArg.attr)
        ELSE callRet[1] <=> IsSubstring(callArg.value, callArg.attr)

\* the value a*b matches the attribute value b/a, where b comes first
WildcardOrderAgnosticWitness ==
    /\ callPc = "done"
    /\ callArg.value = <<"a", Star, "b">>
    /\ callArg.attr = <<"b", "/", "a">>
    /\ callRet[1]

(***************************************************************************)
(* extractAccessibilityAudit: heading structure (part_000 4076-4106), the  *)
(* audit run on pages that differ in their headings only                   *)
(***************************************************************************)
MaxHeadings == 4
HeadingLevels == {1, 2, 3, 4, 6}

HeadingsInit ==
    /\ callPc = "ready"
    /\ callArg \in [contrastFails : {0}, images : {<<>>}, unlabelled : {0},
                    headings : SeqsUpTo(HeadingLevels, MaxHeadings)]
    /\ callRet = NewAudit

InitHeadings == MainIdle /\ ColorIdle /\ PalIdle /\ TechIdle /\ HeadingsInit
HeadingsNext ==
    \/ AuditContrast /\ CallOnly
    \/ AuditImages /\ CallOnly
    \/ AuditForms /\ CallOnly
    \/ AuditHeadings /\ CallOnly
    \/ AuditSummary /\ CallOnly
SpecHeadings == InitHeadings /\ [][HeadingsNext]_vars

IssuesSaying(issues, message) ==
    Cardinality({ i \in 1..Len(issues) :
                    /\ issues[i].message = message
                    /\ issues[i].type = "headings"
                    /\ issues[i].severity = "warning" })
\* consecutive headings with levels a then b
PairsOf(headings, a, b) ==
    Cardinality({ k \in 2..Len(headings) :
                    headings[k - 1] = a /\ headings[k] = b })

(* C27: walking the headings in document order, exactly one 'heading level
   skipped' warning is recorded for every pair of consecutive headings in
   which the level increases by more than one, none for any other pair and
   none for the first heading whatever its level; and exactly one 'missing
   H1' warning is recorded if and only if the page has no h1. *)
HeadingWarningsExact ==
    callPc \in {"summary", "done"} =>
        /\ \A a, b \in 0..6 :
             IssuesSaying(callRet.issues, <<"skipped", a, b>>) =
               (IF b > a + 1 THEN PairsOf(callArg.headings, a, b) ELSE 0)
        /\ IssuesSaying(callRet.issues, <<"missing-h1", 0, 0>>) =
             (IF \E k \in 1..Len(callArg.headings) : callArg.headings[k] = 1
              THEN 0 ELSE 1)
        /\ Len(callRet.issues) =
             Cardinality({ k \in 2..Len(callArg.headings) :
                             callArg.headings[k] > callArg.headings[k - 1] + 1 })
             + IssuesSaying(callRet.issues, <<"missing-h1", 0, 0>>)

\* h3, h6, h2, h4 without an h1: two skipped levels and the missing h1, and
\* nothing for the first heading
HeadingWarningsExactWitness ==
    /\ callPc = "done"
    /\ callArg.headings = <<3, 6, 2, 4>>
    /\ Len(callRet.issues) = 3
    /\ callRet.summary.warnings = 3

(***************************************************************************)
(* POST handler: validation comes before any resource                      *)
(***************************************************************************)
\* the answer of the handler to a url that fails validation
ValidationError(u) ==
    IF u = "missing" THEN "URL is required" ELSE "Invalid URL format"

\* no browser exists and no step of extractBranding or of the tech scan has
\* left a trace
NothingStarted ==
    /\ browser = "none"
    /\ attempts = 0 /\ gotoCount = 0 /\ navErr = None /\ contentLength = 0
    /\ page = InitialPage /\ phasesDone = {} /\ lastRead = NoRead
    /\ thrown = NoError

\* C28: a request whose url is missing or empty, or does not parse as a URL
\* even with "https://" in front, is answered with status 400 and the
\* matching error ("URL is required" / "Invalid URL format") and nothing
\* else: the handler is finished at once, no browser was launched and no
\* extraction or tech scan step has run.
ValidatesBeforeLaunch ==
    req.url \in {"missing", "invalid"} =>
        /\ pc = "done"
        /\ responses = <<[status |-> 400, error |-> ValidationError(req.url),
                          report |-> FALSE]>>
        /\ NothingStarted

ValidatesBeforeLaunchWitness ==
    /\ req.url = "invalid"
    /\ pc = "done"
    /\ Len(responses) = 1
    /\ responses[1].status = 400
    /\ responses[1].error = "Invalid URL format"
    /\ browser = "none"

(***************************************************************************)
(* The merge phases only append (SpecPalette)                              *)
(***************************************************************************)
\* p is the beginning of q: the same entries, field by field, at the same
\* positions
StartsWith(q, p) ==
    /\ Len(p) <= Len(q)
    /\ \A i \in 1..Len(p) : q[i] = p[i]

\* C29: every merge phase (hover/focus, dark mode, mobile) leaves the entries
\* colors.palette had before the phase in place, unchanged and in the same
\* order, and only adds entries behind them; hence the palette of the passive
\* scan is at every moment, and in the report, a prefix of colors.palette.
MergesOnlyAppend ==
    [][/\ StartsWith(palette', palette)
       /\ StartsWith(palette', passivePalette')]_vars

\* a report whose palette holds the passive entries followed by an entry of
\* each of the three merges
MergesOnlyAppendWitness ==
    /\ mpc = "report"
    /\ Len(passivePalette) > 0
    /\ \E i, j, k \in Len(passivePalette) + 1..Len(palette) :
         /\ palette[i].source = "hover/focus"
         /\ palette[j].source = "dark-mode"
         /\ palette[k].source = "mobile"

(***************************************************************************)
(* extractAccessibilityAudit: the contrast check, element by element       *)
(***************************************************************************)
Grey119 == Rgb(119, 119, 119)
Grey153 == Rgb(153, 153, 153)

\* a text element as the contrast check reads it
TextNode(color, backgroundColor, fontSize, fontWeight, display) ==
    [color |-> color, backgroundColor |-> backgroundColor,
     fontSize |-> fontSize, fontWeight |-> fontWeight, width |-> 80,
     height |-> 20, display |-> display, visibility |-> "visible"]

\* "rect.width === 0 || rect.height === 0 || computed.display === 'none' ||
\*  computed.visibility === 'hidden'"
TextHidden(el) ==
    \/ el.width = 0 \/ el.height = 0
    \/ el.display = "none" \/ el.visibility = "hidden"

\* parseRgb: the channels of an rgb()/rgba() or #rrggbb text, null otherwise
parseRgb(color) ==
    IF color.fmt \in {"rgb", "rgba", "hex"}
      THEN [ok |-> TRUE, r |-> color.r, g |-> color.g, b |-> color.b]
      ELSE [ok |-> FALSE, r |-> 0, g |-> 0, b |-> 0]

\* the linearised channel of getLuminance in units of 0.00001, for the channel
\* values of the text colours above (c / 255 through the sRGB curve)
ChannelLinear(c) ==
    CASE c = 0 -> 0
      [] c = 119 -> 18447
      [] c = 153 -> 31854
      [] c = 255 -> 100000

\* getLuminance, in units of 0.00001
getLuminance(r, g, b) ==
    (2126 * ChannelLinear(r) + 7152 * ChannelLinear(g)
       + 722 * ChannelLinear(b)) \div 10000

\* getContrastRatio, in thousandths
getContrastRatio(l1, l2) ==
    LET lighter == IF l1 >= l2 THEN l1 ELSE l2
        darker == IF l1 >= l2 THEN l2 ELSE l1
    IN ((lighter + 5000) * 1000) \div (darker + 5000)

\* "fontSize >= 18 || (fontSize >= 14 && fontWeight >= 700)"
isLargeText(fontSize, fontWeight) ==
    fontSize >= 18 \/ (fontSize >= 14 /\ fontWeight >= 700)

\* the thresholds 3 and 4.5, in thousandths
aaRequired(large) == IF large THEN 3000 ELSE 4500

\* "`${fgColor}|${bgColor}`"
ContrastKey(el) == <<el.color, el.backgroundColor>>

NewContrast == [visited |-> 0, contrastChecked |-> {}, colorContrast |-> <<>>,
                issues |-> <<>>, summary |-> NoSummary]

\* the element is hidden, or its colour pair was already checked
TextSkipped(audit, el) ==
    TextHidden(el) \/ ContrastKey(el) \in audit.contrastChecked

\* the body of textElements.forEach for one element
VisitText(audit, el) ==
    IF TextSkipped(audit, el) THEN [audit EXCEPT !.visited = @ + 1]
    ELSE LET fg == parseRgb(el.color)
             bg == parseRgb(el.backgroundColor)
             ratio == getContrastRatio(getLuminance(fg.r, fg.g, fg.b),
                                       getLuminance(bg.r, bg.g, bg.b))
             large == isLargeText(el.fontSize, el.fontWeight)
             passesAA == ratio >= aaRequired(large)
             checked == [audit EXCEPT
                           !.visited = @ + 1,
                           !.contrastChecked = @ \cup {ContrastKey(el)}]
         IN IF fg.ok /\ bg.ok /\ el.backgroundColor # Transparent
              THEN [checked EXCEPT
                      !.colorContrast =
                         Append(@, [foreground |-> el.color,
                                    background |-> el.backgroundColor,
                                    ratio |-> ratio, isLargeText |-> large,
                                    passesAA |-> passesAA]),
                      !.issues =
                         IF passesAA THEN @
                         ELSE Append(@, [type |-> "contrast",
                                         severity |-> "error",
                                         message |-> <<"contrast", ratio,
                                                       aaRequired(large)>>,
                                         foreground |-> el.color,
                                         background |-> el.backgroundColor])]
              ELSE checked

\* the whole loop over a list of text elements
RECURSIVE VisitAll(_, _)
VisitAll(audit, els) ==
    IF els = <<>> THEN audit
    ELSE VisitAll(VisitText(audit, Head(els)), Tail(els))

\* the contrast part of the audit with its summary
ContrastAudit(els) ==
    LET audit == VisitAll(NewContrast, els)
    IN [audit EXCEPT !.summary = Summary(audit.issues)]

MaxText == 3
TextKinds ==
    { TextNode(Grey119, White, 16, 400, "block"),
      TextNode(Grey119, White, 24, 400, "block"),
      TextNode(Grey119, White, 14, 700, "block"),
      TextNode(Black, White, 16, 400, "block"),
      TextNode(Grey153, White, 24, 400, "block"),
      TextNode(Grey119, Transparent, 16, 400, "block"),
      TextNode(Grey153, White, 16, 400, "none") }

ContrastInit ==
    /\ callPc = "contrast"
    /\ callArg \in SeqsUpTo(TextKinds, MaxText)
    /\ callRet = NewContrast

\* an element that is hidden or whose colour pair is in contrastChecked
ContrastSkip ==
    /\ callPc = "contrast"
    /\ callRet.visited < Len(callArg)
    /\ TextSkipped(callRet, callArg[callRet.visited + 1])
    /\ callRet' = VisitText(callRet, callArg[callRet.visited + 1])
    /\ UNCHANGED <<callPc, callArg>>

\* an element with a new colour pair
ContrastEvaluate ==
    /\ callPc = "contrast"
    /\ callRet.visited < Len(callArg)
    /\ ~TextSkipped(callRet, callArg[callRet.visited + 1])
    /\ callRet' = VisitText(callRet, callArg[callRet.visited + 1])
    /\ UNCHANGED <<callPc, callArg>>

\* the loop is over; the summary is computed from the issues
ContrastSummary ==
    /\ callPc = "contrast"
    /\ callRet.visited = Len(callArg)
    /\ callPc' = "done"
    /\ callRet' = [callRet EXCEPT !.summary = Summary(callRet.issues)]
    /\ UNCHANGED callArg

InitContrast == MainIdle /\ ColorIdle /\ PalIdle /\ TechIdle /\ ContrastInit
ContrastNext ==
    \/ ContrastSkip /\ CallOnly
    \/ ContrastEvaluate /\ CallOnly
    \/ ContrastSummary /\ CallOnly
SpecContrast == InitContrast /\ [][ContrastNext]_vars

\* the lists that hold the same elements in another visiting order
Reorderings(els) ==
    LET n == Len(els)
        bijections == { p \in [1..n -> 1..n] :
                          \A i, j \in 1..n : p[i] = p[j] => i = j }
    IN { [i \in 1..n |-> els[p[i]]] : p \in bijections }

IssueSet(audit) == { audit.issues[i] : i \in 1..Len(audit.issues) }

\* C30: every (foreground, background) pair is evaluated at most once, and
\* the contrast verdicts do not depend on the visiting order: every
\* permutation of the text elements gives the same set of contrast issues and
\* the same passesMinimumAA, also when elements sharing a colour pair differ
\* in font size or weight.
ContrastOrderIndependent ==
    callPc = "done" =>
      /\ \A i, j \in 1..Len(callRet.colorContrast) :
            ( /\ callRet.colorContrast[i].foreground
                   = callRet.colorContrast[j].foreground
              /\ callRet.colorContrast[i].background
                   = callRet.colorContrast[j].background ) => i = j
      /\ \A other \in Reorderings(callArg) :
            /\ IssueSet(ContrastAudit(other)) = IssueSet(callRet)
            /\ ContrastAudit(other).summary.passesMinimumAA
                 = callRet.summary.passesMinimumAA

====
